---- MODULE Spec2Model ----
(***************************************************************************)
(* Queue-and-lease coordination of the embargo-butler services over one    *)
(* shared Redis store: the enqueue service (src/src/enqueue.py), the       *)
(* ingest worker (src/src/ingest.py) and the idle-queue cleanup service    *)
(* (src/src/idle.py).                                                      *)
(*                                                                         *)
(* Representation.  A string is modelled by the sequence of the parts its  *)
(* code splits it into: a Redis key "WORKER:rubin:pp:h1" is the sequence   *)
(* of its ":"-separated parts, an object path is the sequence of its "/"   *)
(* components, an exposure id and a file name are the sequences of their   *)
(* "_" parts, a sequence number is its sequence of decimal digits.  A      *)
(* Redis list is a sequence whose index 1 is the LEFT end and whose last   *)
(* index is the RIGHT end.  Every Redis command (and every MULTI/EXEC      *)
(* pipeline) is one atomic step; processes interleave between commands.    *)
(***************************************************************************)
EXTENDS Integers, Sequences, FiniteSets, TLC

\* ------------------------------------------------------------------ bounds
\* Longest list of records in one notification request.
MaxBatch == 2
\* How many times the store may deliver a notification of one object.
MaxNotify == 2
\* How many accepted deliveries the store makes in all.
MaxDeliveries == 2
\* How many worker lists the idle service finds idle and restores.
MaxPasses == 1
\* How many batches the workers hand to the engine in all.
MaxRuns == 2
\* How many worker processes are killed.
MaxKills == 1
\* Deaths of polling router processes in a run
MaxCrashes == 1
\* Names handed to the parser in a run of the parser specification
MaxInfo == 3
\* Number of concurrent update_stats callers of the statistics specification.
NCallers == 3

\* The runs explored: what a run may spend of the four bounds above.  A run
\* with retries and duplicate deliveries, a run in which the idle service
\* restores the list of a live worker, and a run in which it restores the
\* list of a killed worker.
Budgets ==
    { [deliveries |-> MaxDeliveries, runs |-> 1, passes |-> 0, kills |-> 0],
      [deliveries |-> 1, runs |-> MaxRuns, passes |-> MaxPasses, kills |-> 0],
      [deliveries |-> MaxDeliveries, runs |-> 0, passes |-> MaxPasses,
       kills |-> MaxKills] }

Fits(d, r, p, k) ==
    \E b \in Budgets :
        d <= b.deliveries /\ r <= b.runs /\ p <= b.passes /\ k <= b.kills

\* --------------------------------------------------------- values fixed by the program
MAX_FAILURES == 3
IDLE_MAX == 10
\* MAX_INGESTS of the deployment (the code's default is 10).
max_ingests == 2

\* ------------------------------------------------------------ configuration
\* A key that does not exist: GET returns None (enqueue.py:107).  A stored
\* value is a non-empty string of digits.
None == <<>>
Hosts == {"h1", "h2"}
\* Bucket names as ":"-separated parts: "bucketA" and "rubin:pp".
Buckets == {<<"bucketA">>, <<"rubin", "pp">>}
notification_secret == "secret"

\* ------------------------------------------------------------- identifiers
ExpId(digits) == <<"INST", "C", "20240101", digits>>

\* bucket/inst/20240101/INST_C_20240101_<seq>/INST_C_20240101_<seq>_<tail...>
ObjectPath(b, digits, tail) ==
    <<b, "inst", "20240101", ExpId(digits), ExpId(digits) \o tail>>

\* Sequence numbers "000123" and "000005"
Seq123 == <<0, 0, 0, 1, 2, 3>>
Seq5 == <<0, 0, 0, 0, 0, 5>>
RawTail == <<"R01", "S02.fits">>
GuiderTail == <<"guider.fits">>

\* The objects a deployment on bucket b is notified of: a raw image and the
\* guider file of exposure 123, and a raw image of exposure 5.
ObjectsOf(b) ==
    { ObjectPath(b, Seq123, RawTail),
      ObjectPath(b, Seq123, GuiderTail),
      ObjectPath(b, Seq5, RawTail) }

\* Tokens on which the default DATASET_REGEXP r"fits$" matches.
EndsWithFits == {"S02.fits", "guider.fits", "junk.fits"}

Last(s) == s[Len(s)]

\* A filter that lets every name pass
regexp_any(o) == TRUE

\* regexp.search(o) with the default pattern r"fits$"
regexp_search(o) == Last(Last(o)) \in EndsWithFits

\* int(s) of a decimal digit string
RECURSIVE int(_)
int(digits) ==
    IF digits = <<>> THEN 0
    ELSE 10 * int(SubSeq(digits, 1, Len(digits) - 1)) + Last(digits)

\* The decimal string Redis stores for SET key <int>
RECURSIVE str(_)
str(i) == IF i < 10 THEN <<i>> ELSE str(i \div 10) \o <<i % 10>>

\* Info.from_path for an exposure path: the fields ExposureInfo.__init__ sets.
from_path(url) ==
    [ path       |-> url,
      bucket     |-> url[1],
      instrument |-> url[2],
      obs_day    |-> url[3],
      exp_id     |-> url[4],
      filename   |-> url[5],
      seq_num    |-> url[4][4] ]

\* ExposureInfo.__init__, lines 114-126: the two unpackings succeed when the
\* path has five "/" components and the exposure id four "_" parts; otherwise
\* they raise ValueError, which line 131 raises again
parses(url) == Len(url) = 5 /\ Len(url[4]) = 4

\* ExposureInfo.needs_exposure: filename.endswith("_guider.fits")
needs_exposure(info) ==
    Len(info.filename) > 1 /\ Last(info.filename) = "guider.fits"

\* ------------------------------------------------------------------- keys
redis_queue(b) == <<"QUEUE">> \o b
worker_queue(b, h) == <<"WORKER">> \o b \o <<h>>
expwait_key(exp_id) == <<"EXPWAIT", exp_id>>

\* What idle.py computes from a worker key: queue.split(":")[1] and
\* f"QUEUE:{bucket}".
idle_dest(queue) == <<"QUEUE", queue[2]>>

\* The list keys a deployment on bucket b uses
WorkerKeys(b) == { worker_queue(b, h) : h \in Hosts }
WaitKeys(b) == { expwait_key(o[4]) : o \in ObjectsOf(b) }
ListKeys(b) == {redis_queue(b)} \cup WorkerKeys(b) \cup WaitKeys(b)
                  \cup { idle_dest(k) : k \in WorkerKeys(b) }

\* ------------------------------------------------------- Redis list commands
\* A push on the RIGHT end (RPUSH)
lpush_tail(L, key, v) == [L EXCEPT ![key] = @ \o <<v>>]

\* LPUSH key value
lpush(L, key, v) == [L EXCEPT ![key] = <<v>> \o @]

RECURSIVE Without(_, _)
Without(s, v) ==
    IF s = <<>> THEN <<>>
    ELSE IF s[1] = v THEN Without(Tail(s), v)
    ELSE <<s[1]>> \o Without(Tail(s), v)

\* A removal that removes nothing
lrem_noop(L, key, v) == L

\* LREM key 0 value: remove every occurrence
lrem(L, key, v) == [L EXCEPT ![key] = Without(@, v)]

\* A move that is not atomic: the push on dst without the pop from src
lmove_copy(L, src, dst) == [L EXCEPT ![dst] = <<Last(L[src])>> \o @]

\* LMOVE src dst LEFT LEFT: the entry pushed last on src is taken first
lmove_left(L, src, dst) ==
    IF src = dst
    THEN L
    ELSE [L EXCEPT ![src] = Tail(@),
                   ![dst] = <<Head(L[src])>> \o @]

\* LMOVE src dst RIGHT RIGHT: the entry lands on the end that is taken next
lmove_right(L, src, dst) ==
    LET v == Last(L[src]) IN
    IF src = dst
    THEN L
    ELSE [L EXCEPT ![src] = SubSeq(@, 1, Len(@) - 1),
                   ![dst] = @ \o <<v>>]

\* LMOVE src dst RIGHT LEFT on a non-empty src
lmove(L, src, dst) ==
    LET v == Last(L[src]) IN
    IF src = dst
    THEN [L EXCEPT ![src] = <<v>> \o SubSeq(@, 1, Len(@) - 1)]
    ELSE [L EXCEPT ![src] = SubSeq(@, 1, Len(@) - 1),
                   ![dst] = <<v>> \o @]

\* ------------------------------------------------------------------ state
VARIABLES
    bucket,      \* BUCKET of the deployment (ingest.py:51), as ":" parts
    lists,       \* Redis lists: QUEUE:*, WORKER:*, EXPWAIT:*
    EXPSEEN,     \* fields of the EXPSEEN hash
    FILE,        \* FILE:<path> hashes
    REC,         \* REC:<bucket>[obs_day]
    RECINSTR,    \* RECINSTR:<bucket>:<instrument>[obs_day]
    INGEST,      \* INGEST:<bucket>:<instrument>[obs_day]
    FAIL,        \* FAIL:<bucket>:<instrument>[obs_day]
    MAXSEQ,      \* MAXSEQ:<bucket>:<instrument>:<obs_day>
    rpc,         \* enqueue service: position in notify()
    info_list,   \* enqueue service: the info_list of the request in progress
    request,     \* history: the records of the last request (intake specification)
    pc,          \* ingest worker: position in main()
    resources,   \* ingest worker: the batch read at line 226
    idx,         \* ingest worker: the resource the engine is at
    single,      \* ingest worker: inside the one-by-one retry (lines 251-257)
    n,           \* ingest worker: the greedy counter (line 300)
    alive,       \* ingest worker: process not killed
    looked,      \* history: the process has read its worker list since it started
    ipc,         \* idle service: position in main()
    iqueue,      \* idle service: the worker list being restored
    notified,    \* history: accepted notifications per object
    pass_start,  \* history: the list of a killed worker at the idle check of a pass
    pass_gain,   \* history: what the pass has pushed onto that worker's QUEUE:<bucket>
    passes,      \* history: idle checks that found a list idle
    runs,        \* history: batches handed to the engine
    cpc,         \* update_stats caller: position in the MAXSEQ loop
    cbatch,      \* update_stats caller: sequence numbers of its info_list
    ccurrent,    \* update_stats caller: the value read at line 106
    cwatch,      \* update_stats caller: watched key untouched since WATCH
    cprev        \* history: the MAXSEQ values before the first call

VARIABLES
    delete_seen, \* presence service: DELETE_SEEN is set
    GROUP,       \* GROUP:<instrument>:<group>:<snap>:<detector>
    qpc,         \* presence service: position of a request in presence()
    qarg,        \* presence service: the URL parameters of the request
    qresult,     \* presence service: the value read at line 68
    response,    \* presence service: the answer to the request
    store_ops,   \* history: Redis commands the request has sent
    attached,    \* Rucio: how often each file is attached to the dataset
    apc,         \* _add_files_to_dataset: position of the call
    adids,       \* _add_files_to_dataset: the dids of the call
    aidx,        \* _add_files_to_dataset: the did the retry loop is at
    retries,     \* _add_files_to_dataset: the retries counter
    at_start,    \* history: the attachments when the call began
    HOLD,        \* polling router: the fields of the hash REDIS_KEY
    RECEIVED,    \* polling router: RECEIVED:<bucket>:<instrument>
    ppc,         \* polling router: position of each router process
    pobjects,    \* polling router: the objects read at line 29
    pidx,        \* polling router: the object a for loop is at
    crashes,     \* history: router processes that have died
    parsed,      \* parser: the names handed to Info.from_path by enqueue_objects
    wqueue,      \* parser: QUEUE:<bucket> of the names that parsed
    wlist,       \* parser: the worker list of each bucket's worker
    wres,        \* parser: the resources built at ingest.py line 227
    wlast,       \* history: the entry the last callback was called for
    wbefore      \* history: the worker list before that callback

storeVars == <<lists, EXPSEEN, FILE, REC, RECINSTR, INGEST, FAIL, MAXSEQ>>
routerVars == <<rpc, info_list, request>>
workerVars == <<pc, resources, idx, single, n, alive, looked>>
idleVars == <<ipc, iqueue, pass_start, pass_gain, passes>>
callerVars == <<cpc, cbatch, ccurrent, cwatch, cprev>>
histVars == <<notified, runs>>
presenceVars == <<delete_seen, GROUP, qpc, qarg, qresult, response, store_ops>>
rucioVars == <<attached, apc, adids, aidx, retries, at_start>>
pollVars == <<HOLD, RECEIVED, ppc, pobjects, pidx, crashes>>
infoVars == <<parsed, wqueue, wlist, wres, wlast, wbefore>>
serviceVars == <<presenceVars, rucioVars, pollVars, infoVars>>
mainVars == <<bucket, storeVars, routerVars, workerVars, idleVars, histVars, callerVars>>
vars == <<mainVars, serviceVars>>

\* Counter keys: (bucket, instrument, obs_day) of an info
stat_key(info) == <<info.bucket, info.instrument, info.obs_day>>
StatKeys == { stat_key(from_path(o)) : o \in ObjectsOf(bucket) }

Callers == 1..NCallers

NoFile == [recv_time |-> FALSE, ingest_time |-> FALSE, ing_fail_count |-> 0,
           ing_fail_exc |-> FALSE, md_fail_exc |-> FALSE]

CallersIdle ==
    /\ cpc = [c \in Callers |-> "done"]
    /\ cbatch = [c \in Callers |-> <<>>]
    /\ ccurrent = [c \in Callers |-> None]
    /\ cwatch = [c \in Callers |-> FALSE]
    /\ cprev = MAXSEQ

\* Clients of the presence service
Clients == {1, 2}

\* No request at the presence service, no group recorded
PresenceQuiet ==
    /\ delete_seen = FALSE
    /\ GROUP = <<>>
    /\ qpc = [c \in Clients |-> "idle"]
    /\ qarg = [c \in Clients |-> <<>>]
    /\ qresult = [c \in Clients |-> None]
    /\ response = [c \in Clients |-> <<>>]
    /\ store_ops = [c \in Clients |-> 0]

\* Files a worker registers in one Rucio dataset
Files == {"f1", "f2", "f3"}

\* No registration in progress, nothing attached
RucioQuiet ==
    /\ attached = [f \in Files |-> 0]
    /\ apc = "idle"
    /\ adids = <<>>
    /\ aidx = 1
    /\ retries = 0
    /\ at_start = [f \in Files |-> 0]

\* The processes of the polling router
Routers == {"r1", "r2"}

\* Nothing in the holding area, the polling routers at the top of their loop
PollQuiet ==
    /\ HOLD = {}
    /\ RECEIVED = [k \in StatKeys |-> 0]
    /\ ppc = [r \in Routers |-> "hkeys"]
    /\ pobjects = [r \in Routers |-> <<>>]
    /\ pidx = [r \in Routers |-> 1]
    /\ crashes = 0

\* The bucket components of the names the parser is given
InfoBuckets == {<<"bucketA">>, <<"rubinobs-lfa-main">>}

\* Nothing parsed, nothing queued or leased
InfoQuiet ==
    /\ parsed = {}
    /\ wqueue = [b \in InfoBuckets |-> <<>>]
    /\ wlist = [b \in InfoBuckets |-> <<>>]
    /\ wres = [b \in InfoBuckets |-> <<>>]
    /\ wlast = <<>>
    /\ wbefore = <<>>

ServicesQuiet == PresenceQuiet /\ RucioQuiet /\ PollQuiet /\ InfoQuiet

Init ==
    /\ bucket \in Buckets
    /\ ServicesQuiet
    /\ lists = [k \in ListKeys(bucket) |-> <<>>]
    /\ EXPSEEN \in SUBSET { ExpId(Seq123) }
    /\ FILE = [o \in ObjectsOf(bucket) |-> NoFile]
    /\ REC = [k \in StatKeys |-> 0]
    /\ RECINSTR = [k \in StatKeys |-> 0]
    /\ INGEST = [k \in StatKeys |-> 0]
    /\ FAIL = [k \in StatKeys |-> 0]
    /\ MAXSEQ = [k \in StatKeys |-> None]
    /\ rpc = "idle"
    /\ info_list = <<>>
    /\ request = <<>>
    /\ pc = [h \in Hosts |-> "top"]
    /\ resources = [h \in Hosts |-> <<>>]
    /\ idx = [h \in Hosts |-> 1]
    /\ single = [h \in Hosts |-> FALSE]
    /\ n = [h \in Hosts |-> 0]
    /\ alive = [h \in Hosts |-> TRUE]
    /\ looked = [h \in Hosts |-> pc[h] # "top"]
    /\ ipc = "scan"
    /\ iqueue = <<>>
    /\ notified = [o \in ObjectsOf(bucket) |-> 0]
    /\ pass_start = <<>>
    /\ pass_gain = <<>>
    /\ passes = 0
    /\ runs = 0
    /\ CallersIdle

\* ------------------------------------------------------- enqueue service
\* One record of a notification request: its opaqueData and the object name
\* the service builds from it (enqueue.py:129-131).
Records ==
    [opaqueData : {notification_secret}, object : ObjectsOf(bucket)]
      \cup [opaqueData : {"other"}, object : {ObjectPath(bucket, Seq5, RawTail)}]

Requests == UNION { [1..k -> Records] : k \in 1..MaxBatch }

\* The names of all the records, whatever their opaqueData
object_names_all(recs) == [i \in 1..Len(recs) |-> recs[i].object]

\* notify(), lines 124-131: the names of the records carrying the secret
RECURSIVE object_names(_)
object_names(recs) ==
    IF recs = <<>> THEN <<>>
    ELSE IF recs[1].opaqueData # notification_secret
         THEN object_names(Tail(recs))
         ELSE <<recs[1].object>> \o object_names(Tail(recs))

\* A pipeline of which the first push only takes effect
enqueue_pushes_first(L, seen, objects) ==
    IF objects = <<>> \/ ~regexp_search(objects[1]) THEN L
    ELSE IF needs_exposure(from_path(objects[1]))
         THEN IF from_path(objects[1]).exp_id \notin seen
              THEN lpush(L, expwait_key(from_path(objects[1]).exp_id), objects[1])
              ELSE L
         ELSE lpush(L, redis_queue(from_path(objects[1]).bucket), objects[1])

\* enqueue_objects, lines 65-74: the lists after the pipeline's pushes
RECURSIVE enqueue_pushes(_, _, _)
enqueue_pushes(L, seen, objects) ==
    IF objects = <<>> THEN L
    ELSE LET o == objects[1]
             info == from_path(o)
             L1 == IF ~regexp_search(o) THEN L
                   ELSE IF needs_exposure(info)
                        THEN IF info.exp_id \notin seen
                             THEN lpush(L, expwait_key(info.exp_id), o)
                             ELSE L
                        ELSE lpush(L, redis_queue(info.bucket), o)
         IN enqueue_pushes(L1, seen, Tail(objects))

\* enqueue_objects, lines 62, 66, 75: the returned info_list (as paths)
enqueue_info_list(objects) == SelectSeq(objects, regexp_search)

Count(s, v) == Cardinality({ i \in 1..Len(s) : s[i] = v })

RECURSIVE Sum(_, _)
Sum(f, S) ==
    IF S = {} THEN 0
    ELSE LET x == CHOOSE y \in S : TRUE IN f[x] + Sum(f, S \ {x})

Delivered == Sum(notified, ObjectsOf(bucket))

\* Worker processes killed so far
Killed == Cardinality({ h \in Hosts : ~alive[h] })

\* notify() up to the return of enqueue_objects (lines 123-132), when
\* Info.from_path raises for none of the names that pass the filter
enqueue_objects(recs) ==
    LET objects == object_names(recs)
        infos == enqueue_info_list(objects) IN
    /\ rpc = "idle"
    /\ \A i \in 1..Len(infos) : parses(infos[i])
    /\ Fits(Delivered + Len(infos), runs, passes, Killed)
    /\ \A o \in ObjectsOf(bucket) : notified[o] + Count(infos, o) <= MaxNotify
    /\ lists' = enqueue_pushes(lists, EXPSEEN, objects)
    /\ info_list' = infos
    /\ rpc' = "stats"
    /\ notified' = [o \in ObjectsOf(bucket) |-> notified[o] + Count(infos, o)]
    /\ UNCHANGED <<bucket, serviceVars, EXPSEEN, FILE, REC, RECINSTR, INGEST, FAIL, MAXSEQ,
                   workerVars, idleVars, runs, callerVars>>

Max(a, b) == IF a >= b THEN a ELSE b

\* update_stats, lines 87-97: the max_seqnum dict entry of a key
RECURSIVE batch_max(_, _)
batch_max(seqs, acc) ==
    IF seqs = <<>> THEN acc
    ELSE batch_max(Tail(seqs), Max(seqs[1], acc))

\* A write of the request's own maximum, whatever the key holds
new_maxseq_overwrite(current, candidate) == candidate

\* update_stats, lines 107-110: the value written for a key
new_maxseq(current, candidate) ==
    IF current = None THEN candidate ELSE Max(int(current), candidate)

RECURSIVE SeqOfKey(_, _)
SeqOfKey(infos, k) ==
    IF infos = <<>> THEN <<>>
    ELSE (IF stat_key(from_path(infos[1])) = k
          THEN <<int(from_path(infos[1]).seq_num)>> ELSE <<>>)
           \o SeqOfKey(Tail(infos), k)

\* notify(), lines 122-132: one request of the object store.  A request that
\* accepts nothing changes nothing in the store and is left out.  (The budget
\* is tested here as well as in enqueue_objects, before the requests are
\* built.)
notify ==
    /\ rpc = "idle"
    /\ Fits(Delivered + 1, runs, passes, Killed)
    /\ \E recs \in Requests :
          /\ enqueue_info_list(object_names(recs)) # <<>>
          /\ enqueue_objects(recs)
    /\ UNCHANGED request

\* A counter written with the batch's own count instead of incremented by it
hset_each(counter, infos) ==
    [k \in StatKeys |->
        IF \E i \in 1..Len(infos) : stat_key(from_path(infos[i])) = k
        THEN Cardinality({ i \in 1..Len(infos) :
                             stat_key(from_path(infos[i])) = k })
        ELSE counter[k]]

\* update_stats, lines 88-98: the pipeline's counters and recv_time
hincrby_each(counter, infos) ==
    [k \in StatKeys |->
        counter[k] + Cardinality({ i \in 1..Len(infos) :
                                     stat_key(from_path(infos[i])) = k })]

hset_recv_time(infos) ==
    [o \in DOMAIN FILE |->
        IF Count(infos, o) > 0
        THEN [FILE[o] EXCEPT !.recv_time = TRUE] ELSE FILE[o]]

\* update_stats(info_list) of the request in progress, run to completion
\* (lines 80-116; its MAXSEQ loop under contention is the callers' below)
update_stats ==
    /\ rpc = "stats"
    /\ REC' = hincrby_each(REC, info_list)
    /\ RECINSTR' = hincrby_each(RECINSTR, info_list)
    /\ FILE' = hset_recv_time(info_list)
    /\ MAXSEQ' = [k \in StatKeys |->
                 IF SeqOfKey(info_list, k) = <<>> THEN MAXSEQ[k]
                 ELSE str(new_maxseq(MAXSEQ[k],
                                     batch_max(SeqOfKey(info_list, k), 0)))]
    /\ rpc' = "idle"
    /\ info_list' = <<>>
    /\ UNCHANGED <<bucket, serviceVars, lists, EXPSEEN, INGEST, FAIL, request,
                   workerVars, idleVars, histVars, callerVars>>

\* --------------------------------------------------------- ingest worker
wq(h) == worker_queue(bucket, h)

\* A loop that goes to the blocking move without a look at the worker list
skip_worker_queue(h) ==
    /\ alive[h] /\ pc[h] = "top"
    /\ pc' = [pc EXCEPT ![h] = "blmove"]
    /\ UNCHANGED <<bucket, serviceVars, storeVars, routerVars, resources, idx,
                   single, n, alive, looked, idleVars, histVars, callerVars>>

\* main(), lines 225-230: read the worker list (LLEN and LRANGE, taken as one
\* read); with entries on it hand them to ingester.run, without go on to the
\* blocking move
read_worker_queue(h) ==
    /\ alive[h] /\ pc[h] = "top"
    /\ IF Len(lists[wq(h)]) > 0
       THEN /\ Fits(Delivered, runs + 1, passes, Killed)
            /\ runs' = runs + 1
            /\ resources' = [resources EXCEPT ![h] = lists[wq(h)]]
            /\ idx' = [idx EXCEPT ![h] = 1]
            /\ single' = [single EXCEPT ![h] = FALSE]
            /\ pc' = [pc EXCEPT ![h] = "run"]
       ELSE /\ pc' = [pc EXCEPT ![h] = "blmove"]
            /\ UNCHANGED <<resources, idx, single, runs>>
    /\ looked' = [looked EXCEPT ![h] = TRUE]
    /\ UNCHANGED <<bucket, serviceVars, lists, EXPSEEN, FILE, REC, RECINSTR, INGEST, FAIL,
                   MAXSEQ, routerVars, n, alive, idleVars, notified, callerVars>>

\* The resource the engine is at, and where the worker goes once the engine
\* has called back for it
Current(h) == resources[h][idx[h]]

InEngine(h) ==
    /\ alive[h]
    /\ pc[h] \in {"run", "run1"}
    /\ idx[h] <= Len(resources[h])

AfterCallback(h) ==
    IF single[h]
    THEN /\ pc' = [pc EXCEPT ![h] = "ran1"]
         /\ UNCHANGED idx
    ELSE /\ pc' = [pc EXCEPT ![h] = "run"]
         /\ idx' = [idx EXCEPT ![h] = @ + 1]

\* WEBHOOK_URI is set (ingest.py:56)
webhook_uri == TRUE

\* on_success for one dataset, lines 82-90: the pipeline; with a webhook
\* the POST of line 92 follows
on_success(h) ==
    /\ InEngine(h)
    /\ LET info == from_path(Current(h)) IN
       /\ lists' = lrem(lists, wq(h), info.path)
       /\ FILE' = [FILE EXCEPT ![info.path].ingest_time = TRUE]
       /\ INGEST' = [INGEST EXCEPT ![stat_key(info)] = @ + 1]
    /\ IF webhook_uri
       THEN /\ pc' = [pc EXCEPT ![h] = "webhook"]
            /\ UNCHANGED idx
       ELSE AfterCallback(h)
    /\ UNCHANGED <<bucket, serviceVars, EXPSEEN, REC, RECINSTR, FAIL, MAXSEQ, routerVars,
                   resources, single, n, alive, looked, idleVars, histVars, callerVars>>

\* on_ingest_failure, lines 108-115: the pipeline
on_ingest_failure(h) ==
    /\ InEngine(h)
    /\ LET info == from_path(Current(h)) IN
       /\ FAIL' = [FAIL EXCEPT ![stat_key(info)] = @ + 1]
       /\ FILE' = [FILE EXCEPT ![info.path].ing_fail_exc = TRUE,
                               ![info.path].ing_fail_count = @ + 1]
    /\ pc' = [pc EXCEPT ![h] = "check"]
    /\ UNCHANGED <<bucket, serviceVars, lists, EXPSEEN, REC, RECINSTR, INGEST, MAXSEQ,
                   routerVars, resources, idx, single, n, alive, looked, idleVars,
                   histVars, callerVars>>

\* on_ingest_failure, lines 116-117: read the count back (HGET), give up at
\* MAX_FAILURES (LREM)
give_up(count) == count >= MAX_FAILURES

on_ingest_failure_check(h) ==
    /\ alive[h] /\ pc[h] = "check"
    /\ LET info == from_path(Current(h)) IN
       IF give_up(FILE[info.path].ing_fail_count)
       THEN /\ lists' = lrem(lists, wq(h), info.path)
               ELSE UNCHANGED lists
    /\ AfterCallback(h)
    /\ UNCHANGED <<bucket, serviceVars, EXPSEEN, FILE, REC, RECINSTR, INGEST, FAIL, MAXSEQ,
                   routerVars, resources, single, n, alive, looked, idleVars, histVars,
                   callerVars>>

\* on_metadata_failure, lines 133-140
on_metadata_failure(h) ==
    /\ InEngine(h)
    /\ LET info == from_path(Current(h)) IN
       /\ FAIL' = [FAIL EXCEPT ![stat_key(info)] = @ + 1]
       /\ FILE' = [FILE EXCEPT ![info.path].md_fail_exc = TRUE]
       /\ lists' = lrem(lists, wq(h), info.path)
    /\ AfterCallback(h)
    /\ UNCHANGED <<bucket, serviceVars, EXPSEEN, REC, RECINSTR, INGEST, MAXSEQ, routerVars,
                   resources, single, n, alive, looked, idleVars, histVars, callerVars>>

\* Once the batch is done its local variables are dead
Forget(h) ==
    /\ resources' = [resources EXCEPT ![h] = <<>>]
    /\ idx' = [idx EXCEPT ![h] = 1]
    /\ single' = [single EXCEPT ![h] = FALSE]

\* ingester.run(resources) returns, line 247 (what follows it, lines 275-294,
\* touches no list)
run_returns(h) ==
    /\ alive[h] /\ pc[h] = "run" /\ idx[h] > Len(resources[h])
    /\ pc' = [pc EXCEPT ![h] = "blmove"]
    /\ Forget(h)
    /\ UNCHANGED <<bucket, serviceVars, storeVars, routerVars, n, alive, looked, idleVars, histVars,
                   callerVars>>

\* ingester.run(resources) raises, lines 248-251: retry one by one from the
\* first resource of the batch
run_raises(h) ==
    /\ alive[h] /\ pc[h] = "run"
    /\ pc' = [pc EXCEPT ![h] = "run1"]
    /\ idx' = [idx EXCEPT ![h] = 1]
    /\ single' = [single EXCEPT ![h] = TRUE]
    /\ UNCHANGED <<bucket, serviceVars, storeVars, routerVars, resources, n, alive, looked,
                   idleVars, histVars, callerVars>>

\* The one-by-one loop goes on to its next resource, or ends
NextSingle(h) ==
    IF idx[h] + 1 > Len(resources[h])
    THEN /\ pc' = [pc EXCEPT ![h] = "blmove"]
         /\ Forget(h)
    ELSE /\ pc' = [pc EXCEPT ![h] = "run1"]
         /\ idx' = [idx EXCEPT ![h] = @ + 1]
         /\ UNCHANGED <<resources, single>>

\* on_success, lines 92-93: the POST answers and the callback returns
webhook_returns(h) ==
    /\ alive[h] /\ pc[h] = "webhook"
    /\ AfterCallback(h)
    /\ UNCHANGED <<bucket, serviceVars, storeVars, routerVars, resources, single, n, alive, looked,
                   idleVars, histVars, callerVars>>

\* on_success, line 92: requests.post raises (connection error, timeout
\* after 0.5 s).  Nothing in on_success catches it: it leaves the callback
\* and ingester.run, and main() catches it at line 248 (then the one-by-one
\* retry starts from the first resource) or, inside that retry, at line 254
\* (then line 257 removes the resource and the retry goes on)
webhook_raises(h) ==
    /\ alive[h] /\ pc[h] = "webhook"
    /\ IF single[h]
       THEN /\ lists' = lrem(lists, wq(h), from_path(Current(h)).path)
            /\ NextSingle(h)
       ELSE /\ pc' = [pc EXCEPT ![h] = "run1"]
            /\ idx' = [idx EXCEPT ![h] = 1]
            /\ single' = [single EXCEPT ![h] = TRUE]
            /\ UNCHANGED <<lists, resources>>
    /\ UNCHANGED <<bucket, serviceVars, EXPSEEN, FILE, REC, RECINSTR, INGEST, FAIL, MAXSEQ,
                   routerVars, n, alive, looked, idleVars, histVars, callerVars>>

\* ingester.run([resource]) returns, line 253
run1_returns(h) ==
    /\ alive[h] /\ pc[h] = "ran1"
    /\ NextSingle(h)
    /\ UNCHANGED <<bucket, serviceVars, storeVars, routerVars, n, alive, looked, idleVars, histVars,
                   callerVars>>

\* ingester.run([resource]) raises, lines 254-257: before or after its callback
run1_raises(h) ==
    /\ alive[h] /\ pc[h] \in {"run1", "ran1"}
    /\ lists' = lrem(lists, wq(h), from_path(Current(h)).path)
    /\ NextSingle(h)
    /\ UNCHANGED <<bucket, serviceVars, EXPSEEN, FILE, REC, RECINSTR, INGEST, FAIL, MAXSEQ,
                   routerVars, n, alive, looked, idleVars, histVars, callerVars>>

\* line 298: BLMOVE QUEUE:<bucket> WORKER:<bucket>:<host> RIGHT LEFT 0, which
\* returns once the bucket queue holds an entry
blmove(h) ==
    /\ alive[h] /\ pc[h] = "blmove"
    /\ Len(lists[redis_queue(bucket)]) > 0
    /\ lists' = lmove(lists, redis_queue(bucket), wq(h))
    /\ pc' = [pc EXCEPT ![h] = "llen"]
    /\ UNCHANGED <<bucket, serviceVars, EXPSEEN, FILE, REC, RECINSTR, INGEST, FAIL, MAXSEQ,
                   routerVars, resources, idx, single, n, alive, looked, idleVars,
                   histVars, callerVars>>

\* line 300: n = r.llen(worker_queue)
llen(h) ==
    /\ alive[h] /\ pc[h] = "llen"
    /\ n' = [n EXCEPT ![h] = Len(lists[wq(h)])]
    /\ pc' = [pc EXCEPT ![h] = "greedy"]
    /\ UNCHANGED <<bucket, serviceVars, lists, EXPSEEN, FILE, REC, RECINSTR, INGEST, FAIL,
                   MAXSEQ, routerVars, resources, idx, single, alive, looked, idleVars,
                   histVars, callerVars>>

\* lines 301-302: take entries while n < max_ingests and LMOVE returns one
greedy(h) ==
    /\ alive[h] /\ pc[h] = "greedy"
    /\ IF n[h] < max_ingests /\ Len(lists[redis_queue(bucket)]) > 0
       THEN /\ lists' = lmove(lists, redis_queue(bucket), wq(h))
            /\ n' = [n EXCEPT ![h] = @ + 1]
                    /\ UNCHANGED pc
       ELSE /\ pc' = [pc EXCEPT ![h] = "top"]
            /\ n' = [n EXCEPT ![h] = 0]
            /\ UNCHANGED lists
    /\ UNCHANGED <<bucket, serviceVars, EXPSEEN, FILE, REC, RECINSTR, INGEST, FAIL, MAXSEQ,
                   routerVars, resources, idx, single, alive, looked, idleVars,
                   histVars, callerVars>>

\* The worker process is killed (SIGTERM, redeployment)
kill(h) ==
    /\ alive[h]
    /\ Fits(Delivered, runs, passes, Killed + 1)
    /\ alive' = [alive EXCEPT ![h] = FALSE]
    /\ UNCHANGED <<bucket, serviceVars, storeVars, routerVars, pc, resources, idx, single, n, looked,
                   idleVars, histVars, callerVars>>

\* ----------------------------------------------------------- idle service
\* What OBJECT IDLETIME can answer for a list: the seconds since the last
\* command on it, which no step of a worker bounds
IdleTimes == {0, IDLE_MAX, IDLE_MAX + 1}

\* idle.py lines 58-63: a key of the scan whose idle time is over IDLE_MAX
is_idle(idle) == idle > IDLE_MAX

\* The worker that owns list k has been killed
OwnerStopped(k) == \E h \in Hosts : k = wq(h) /\ ~alive[h]

idle_check(k, idle) ==
    /\ ipc = "scan"
    /\ lists[k] # <<>>
    /\ is_idle(idle)
    /\ Fits(Delivered, runs, passes + 1, Killed)
    /\ passes' = passes + 1
    /\ ipc' = "move"
    /\ iqueue' = k
    /\ pass_start' = IF OwnerStopped(k) THEN lists[k] ELSE <<>>
    /\ pass_gain' = <<>>
    /\ UNCHANGED <<bucket, serviceVars, storeVars, routerVars, workerVars, histVars, callerVars>>

\* idle.py lines 65-66: one LMOVE of the loop; None ends it
idle_move ==
    /\ ipc = "move"
    /\ IF lists[iqueue] # <<>>
       THEN /\ lists' = lmove(lists, iqueue, idle_dest(iqueue))
            /\ pass_gain' = IF /\ OwnerStopped(iqueue)
                               /\ idle_dest(iqueue) = redis_queue(bucket)
                            THEN <<Last(lists[iqueue])>> \o pass_gain
                            ELSE pass_gain
            /\ UNCHANGED <<ipc, iqueue, pass_start, passes>>
       ELSE /\ ipc' = "scan"
            /\ iqueue' = <<>>
            /\ pass_start' = <<>>
            /\ pass_gain' = <<>>
            /\ UNCHANGED <<lists, passes>>
    /\ UNCHANGED <<bucket, serviceVars, EXPSEEN, FILE, REC, RECINSTR, INGEST, FAIL, MAXSEQ,
                   routerVars, workerVars, histVars, callerVars>>

\* ------------------------------------------- concurrent update_stats callers
\* Several notify() requests inside update_stats at once (two enqueue services
\* during a redeployment, or the threads of one), each with its own info_list.
\* Every Redis command of the MAXSEQ loop is a step of its own.

\* Raw images of exposures 1, 3, 5 and 9 of one instrument and day
StatObjects(b) ==
    { ObjectPath(b, <<0, 0, 0, d>>, RawTail) : d \in {1, 3, 5, 9} }

\* The info_lists of the concurrent requests
StatBatches(b) ==
    { <<ObjectPath(b, <<0, 0, 0, 5>>, RawTail), ObjectPath(b, <<0, 0, 0, 3>>, RawTail)>>,
      <<ObjectPath(b, <<0, 0, 0, 9>>, RawTail)>>,
      <<ObjectPath(b, <<0, 0, 0, 1>>, RawTail)>> }

\* The MAXSEQ key of a caller's info_list (its exposures share one key)
seqnum_key(c) == stat_key(from_path(cbatch[c][1]))

\* update_stats, lines 87-98: max_seqnum and the pipeline
stats_pipeline(c) ==
    /\ cpc[c] = "pipeline"
    /\ REC' = hincrby_each(REC, cbatch[c])
    /\ RECINSTR' = hincrby_each(RECINSTR, cbatch[c])
    /\ FILE' = hset_recv_time(cbatch[c])
    /\ cpc' = [cpc EXCEPT ![c] = "watch"]
    /\ UNCHANGED <<bucket, serviceVars, lists, EXPSEEN, INGEST, FAIL, MAXSEQ, routerVars,
                   workerVars, idleVars, histVars, cbatch, ccurrent, cwatch,
                   cprev>>

\* line 105: pipe.watch(seqnum_key)
stats_watch(c) ==
    /\ cpc[c] = "watch"
    /\ cwatch' = [cwatch EXCEPT ![c] = TRUE]
    /\ cpc' = [cpc EXCEPT ![c] = "get"]
    /\ UNCHANGED <<bucket, serviceVars, storeVars, routerVars, workerVars, idleVars,
                   histVars, cbatch, ccurrent, cprev>>

\* line 106: current = pipe.get(seqnum_key)
stats_get(c) ==
    /\ cpc[c] = "get"
    /\ ccurrent' = [ccurrent EXCEPT ![c] = MAXSEQ[seqnum_key(c)]]
    /\ cpc' = [cpc EXCEPT ![c] = "execute"]
    /\ UNCHANGED <<bucket, serviceVars, storeVars, routerVars, workerVars, idleVars,
                   histVars, cbatch, cwatch, cprev>>

\* An EXEC that commits whatever happened to the watched key
watch_ignored(c) == TRUE

\* An EXEC that never commits
watch_never(c) == FALSE

\* EXEC of a transaction commits when the watched key has not been written
\* since WATCH
watch_intact(c) == cwatch[c]

\* lines 107-114: the value, MULTI, SET, EXEC; the SET invalidates every
\* other caller's watch of the key
stats_execute(c) ==
    /\ cpc[c] = "execute"
    /\ watch_intact(c)
    /\ MAXSEQ' = [MAXSEQ EXCEPT ![seqnum_key(c)] =
                     str(new_maxseq(ccurrent[c],
                                    batch_max(SeqOfKey(cbatch[c], seqnum_key(c)), 0)))]
    /\ cwatch' = [d \in Callers |->
                    IF d = c \/ seqnum_key(d) = seqnum_key(c) THEN FALSE
                    ELSE cwatch[d]]
    /\ cpc' = [cpc EXCEPT ![c] = "done"]
    /\ UNCHANGED <<bucket, serviceVars, lists, EXPSEEN, FILE, REC, RECINSTR, INGEST, FAIL,
                   routerVars, workerVars, idleVars, histVars, cbatch, ccurrent,
                   cprev>>

\* lines 113, 115-116: EXEC raises WatchError, the loop starts over
stats_WatchError(c) ==
    /\ cpc[c] = "execute"
    /\ ~watch_intact(c)
    /\ cpc' = [cpc EXCEPT ![c] = "watch"]
    /\ UNCHANGED <<bucket, serviceVars, storeVars, routerVars, workerVars, idleVars,
                   histVars, cbatch, ccurrent, cwatch, cprev>>

\* The value a MAXSEQ key holds before the requests: none, or exposure 4 or 12
PreviousValues == {None, str(4), str(12)}

InitStats ==
    /\ bucket = <<"bucketA">>
    /\ ServicesQuiet
    /\ lists = [k \in ListKeys(bucket) |-> <<>>]
    /\ EXPSEEN = {}
    /\ FILE = [o \in StatObjects(bucket) |-> NoFile]
    /\ REC = [k \in StatKeys |-> 0]
    /\ RECINSTR = [k \in StatKeys |-> 0]
    /\ INGEST = [k \in StatKeys |-> 0]
    /\ FAIL = [k \in StatKeys |-> 0]
    /\ MAXSEQ \in [StatKeys -> PreviousValues]
    /\ rpc = "idle"
    /\ info_list = <<>>
    /\ request = <<>>
    /\ pc = [h \in Hosts |-> "top"]
    /\ resources = [h \in Hosts |-> <<>>]
    /\ idx = [h \in Hosts |-> 1]
    /\ single = [h \in Hosts |-> FALSE]
    /\ n = [h \in Hosts |-> 0]
    /\ alive = [h \in Hosts |-> TRUE]
    /\ looked = [h \in Hosts |-> pc[h] # "top"]
    /\ ipc = "scan"
    /\ iqueue = <<>>
    /\ notified = [o \in ObjectsOf(bucket) |-> 0]
    /\ pass_start = <<>>
    /\ pass_gain = <<>>
    /\ passes = 0
    /\ runs = 0
    /\ cpc = [c \in Callers |-> "pipeline"]
    /\ cbatch \in [Callers -> StatBatches(bucket)]
    /\ ccurrent = [c \in Callers |-> None]
    /\ cwatch = [c \in Callers |-> FALSE]
    /\ cprev = MAXSEQ

NextStats ==
    \E c \in Callers :
        \/ stats_pipeline(c)
        \/ stats_watch(c)
        \/ stats_get(c)
        \/ stats_execute(c)
        \/ stats_WatchError(c)

SpecStats == InitStats /\ [][NextStats]_vars

\* The server keeps running its request threads and Redis answers each of
\* their commands: while some call can take a step, some call takes one.
FairSpecStats == InitStats /\ [][NextStats]_vars /\ WF_vars(NextStats)

\* ---------------------------------------------------------- specification
Next ==
    \/ notify
    \/ update_stats
    \/ \E h \in Hosts :
         \/ read_worker_queue(h)
         \/ on_success(h)
         \/ on_ingest_failure(h)
         \/ on_ingest_failure_check(h)
         \/ on_metadata_failure(h)
         \/ run_returns(h)
         \/ run_raises(h)
         \/ run1_returns(h)
         \/ run1_raises(h)
         \/ webhook_returns(h)
         \/ webhook_raises(h)
         \/ blmove(h)
         \/ llen(h)
         \/ greedy(h)
         \/ kill(h)
    \/ \E k \in WorkerKeys(bucket), idle \in IdleTimes : idle_check(k, idle)
    \/ idle_move

Spec == Init /\ [][Next]_vars

\* --------------------------------------------- retries of left-over items
\* The workers and the idle service from the moment on at which worker h1 has
\* handed items to the engine, the engine has reported an ingest failure for
\* each (on_ingest_failure, count 1 of MAX_FAILURES) and has returned: the
\* items are still on the lease list of h1, which is at the blocking move of
\* line 298.  The history variables count from that moment.
LeftOverOne == <<ObjectPath(bucket, Seq123, RawTail)>>
LeftOverTwo == <<ObjectPath(bucket, Seq5, RawTail), ObjectPath(bucket, Seq123, RawTail)>>

FailedOnce == [recv_time |-> TRUE, ingest_time |-> FALSE, ing_fail_count |-> 1,
               ing_fail_exc |-> TRUE, md_fail_exc |-> FALSE]

InitLeftOver(LeftOver) ==
    /\ bucket \in Buckets
    /\ ServicesQuiet
    /\ lists = [k \in ListKeys(bucket) |->
                   IF k = worker_queue(bucket, "h1") THEN LeftOver ELSE <<>>]
    /\ EXPSEEN = {}
    /\ FILE = [o \in ObjectsOf(bucket) |->
                  IF \E i \in 1..Len(LeftOver) : LeftOver[i] = o
                  THEN FailedOnce ELSE NoFile]
    /\ REC = [k \in StatKeys |-> Len(LeftOver)]
    /\ RECINSTR = [k \in StatKeys |-> Len(LeftOver)]
    /\ INGEST = [k \in StatKeys |-> 0]
    /\ FAIL = [k \in StatKeys |-> Len(LeftOver)]
    /\ MAXSEQ = [k \in StatKeys |-> str(123)]
    /\ rpc = "idle"
    /\ info_list = <<>>
    /\ request = <<>>
    /\ pc = [h \in Hosts |-> IF h = "h1" THEN "blmove" ELSE "top"]
    /\ resources = [h \in Hosts |-> <<>>]
    /\ idx = [h \in Hosts |-> 1]
    /\ single = [h \in Hosts |-> FALSE]
    /\ n = [h \in Hosts |-> 0]
    /\ alive = [h \in Hosts |-> TRUE]
    /\ looked = [h \in Hosts |-> pc[h] # "top"]
    /\ ipc = "scan"
    /\ iqueue = <<>>
    /\ notified = [o \in ObjectsOf(bucket) |-> 0]
    /\ pass_start = <<>>
    /\ pass_gain = <<>>
    /\ passes = 0
    /\ runs = 0
    /\ CallersIdle

InitLease == InitLeftOver(LeftOverTwo)

InitRetry == InitLeftOver(LeftOverOne)

\* One step of the worker on host h, which is not killed
worker_step(h) ==
    \/ read_worker_queue(h)
    \/ on_success(h)
    \/ on_ingest_failure(h)
    \/ on_ingest_failure_check(h)
    \/ on_metadata_failure(h)
    \/ run_returns(h)
    \/ run_raises(h)
    \/ run1_returns(h)
    \/ run1_raises(h)
    \/ webhook_returns(h)
    \/ webhook_raises(h)
    \/ blmove(h)
    \/ llen(h)
    \/ greedy(h)

\* Further notifications arrive while the items are left over
NextLease ==
    \/ notify
    \/ update_stats
    \/ \E h \in Hosts : worker_step(h)

SpecLease == InitLease /\ [][NextLease]_vars

\* A worker process is started on a host whose process was killed: the module
\* is loaded anew (lines 46-61) and main() is entered at the top of its loop
\* (lines 222-225) with no state of the former process but the worker list
start(h) ==
    /\ ~alive[h]
    /\ alive' = [alive EXCEPT ![h] = TRUE]
    /\ pc' = [pc EXCEPT ![h] = "top"]
    /\ resources' = [resources EXCEPT ![h] = <<>>]
    /\ idx' = [idx EXCEPT ![h] = 1]
    /\ single' = [single EXCEPT ![h] = FALSE]
    /\ n' = [n EXCEPT ![h] = 0]
    /\ looked' = [looked EXCEPT ![h] = FALSE]
    /\ UNCHANGED <<bucket, serviceVars, storeVars, routerVars, idleVars,
                   histVars, callerVars>>

\* The worker on h1 was killed at the blocking move after a run that left
\* one item on its list; nothing else is in the store
InitStart ==
    /\ bucket \in Buckets
    /\ ServicesQuiet
    /\ lists = [k \in ListKeys(bucket) |->
                   IF k = worker_queue(bucket, "h1") THEN LeftOverOne ELSE <<>>]
    /\ EXPSEEN = {}
    /\ FILE = [o \in ObjectsOf(bucket) |->
                  IF o = LeftOverOne[1] THEN FailedOnce ELSE NoFile]
    /\ REC = [k \in StatKeys |-> 1]
    /\ RECINSTR = [k \in StatKeys |-> 1]
    /\ INGEST = [k \in StatKeys |-> 0]
    /\ FAIL = [k \in StatKeys |-> 1]
    /\ MAXSEQ = [k \in StatKeys |-> str(123)]
    /\ rpc = "idle"
    /\ info_list = <<>>
    /\ request = <<>>
    /\ pc = [h \in Hosts |-> IF h = "h1" THEN "blmove" ELSE "top"]
    /\ resources = [h \in Hosts |-> IF h = "h1" THEN LeftOverOne ELSE <<>>]
    /\ idx = [h \in Hosts |-> IF h = "h1" THEN 2 ELSE 1]
    /\ single = [h \in Hosts |-> FALSE]
    /\ n = [h \in Hosts |-> 0]
    /\ alive = [h \in Hosts |-> h # "h1"]
    /\ looked = [h \in Hosts |-> pc[h] # "top"]
    /\ ipc = "scan"
    /\ iqueue = <<>>
    /\ notified = [o \in ObjectsOf(bucket) |-> 0]
    /\ pass_start = <<>>
    /\ pass_gain = <<>>
    /\ passes = 0
    /\ runs = 0
    /\ CallersIdle

\* Notifications arrive, workers run, are killed and started again
NextStart ==
    \/ notify
    \/ update_stats
    \/ \E h \in Hosts :
         \/ worker_step(h)
         \/ kill(h)
         \/ start(h)

SpecStart == InitStart /\ [][NextStart]_vars

\* Nothing further is enqueued; the workers and the idle service run
NextRetry ==
    \/ \E h \in Hosts : worker_step(h)
    \/ \E k \in WorkerKeys(bucket), idle \in IdleTimes : idle_check(k, idle)
    \/ idle_move

\* idle.py line 65: the LMOVE that finds the list empty and ends the loop
idle_loop_ends == ipc = "move" /\ lists[iqueue] = <<>> /\ idle_move

\* The worker processes and the idle service keep running, a list nobody
\* touches grows idle beyond IDLE_MAX, and Redis answers every command: as
\* long as one of them can take a step, one is taken.  To follow an item
\* beyond the pass that returns it, the loop of the idle service, which finds
\* the list empty again and again, is taken to end (nothing in the code makes
\* it: FairSpecPass is the specification without that).
FairSpecRetry ==
    /\ InitRetry /\ [][NextRetry]_vars
    /\ WF_vars(NextRetry)
    /\ SF_vars(idle_loop_ends)

\* Each process keeps running and Redis answers every command: the idle
\* service sends the next LMOVE of its loop, and a worker that is not blocked
\* takes its next step.
FairSpecPass ==
    /\ InitRetry /\ [][NextRetry]_vars
    /\ WF_vars(idle_move)
    /\ \A h \in Hosts : WF_vars(worker_step(h))

\* ------------------------------------------------- intake specification
\* The enqueue service alone, with every kind of record a request can carry:
\* a wrong opaqueData, a name the filter rejects, and a name that passes the
\* filter but does not have the five components ExposureInfo unpacks.
NotFits(b) == ObjectPath(b, <<0, 0, 0, 9, 9, 9>>, <<"R01", "S02.json">>)

Malformed(b) == <<b, <<"junk.fits">>>>

RouterObjects(b) == ObjectsOf(b) \cup {NotFits(b), Malformed(b)}

RouterRecords ==
    [opaqueData : {notification_secret}, object : RouterObjects(bucket)]
      \cup [opaqueData : {"other"}, object : {ObjectPath(bucket, Seq123, RawTail)}]

RouterRequests == UNION { [1..k -> RouterRecords] : k \in 1..MaxBatch }

\* enqueue_objects() when Info.from_path raises on one of the names that pass
\* the filter (enqueue.py:67, info.py:120 and 129-131): the exception leaves
\* the function before pipe.execute() on line 76, so none of the pushes the
\* pipeline has buffered is sent, and update_stats (line 133) is not reached
enqueue_raises(recs) ==
    LET objects == object_names(recs)
        infos == enqueue_info_list(objects) IN
    /\ rpc = "idle"
    /\ \E i \in 1..Len(infos) : ~parses(infos[i])
    /\ rpc' = "raised"
    /\ UNCHANGED <<bucket, serviceVars, storeVars, info_list, workerVars, idleVars, histVars,
                   callerVars>>

\* notify(), lines 122-132, for any request
notify_any ==
    \E recs \in RouterRequests :
        /\ enqueue_objects(recs) \/ enqueue_raises(recs)
        /\ request' = recs

\* The exception leaves notify(); the service answers the request with an
\* error and takes the next one
error_response ==
    /\ rpc = "raised"
    /\ rpc' = "idle"
    /\ UNCHANGED <<bucket, serviceVars, storeVars, info_list, request, workerVars, idleVars,
                   histVars, callerVars>>

InitRouter ==
    /\ bucket \in Buckets
    /\ ServicesQuiet
    /\ lists = [k \in ListKeys(bucket) |-> <<>>]
    /\ EXPSEEN \in SUBSET { ExpId(Seq123) }
    /\ FILE = [o \in ObjectsOf(bucket) \cup {NotFits(bucket)} |-> NoFile]
    /\ REC = [k \in StatKeys |-> 0]
    /\ RECINSTR = [k \in StatKeys |-> 0]
    /\ INGEST = [k \in StatKeys |-> 0]
    /\ FAIL = [k \in StatKeys |-> 0]
    /\ MAXSEQ = [k \in StatKeys |-> None]
    /\ rpc = "idle"
    /\ info_list = <<>>
    /\ request = <<>>
    /\ pc = [h \in Hosts |-> "top"]
    /\ resources = [h \in Hosts |-> <<>>]
    /\ idx = [h \in Hosts |-> 1]
    /\ single = [h \in Hosts |-> FALSE]
    /\ n = [h \in Hosts |-> 0]
    /\ alive = [h \in Hosts |-> TRUE]
    /\ looked = [h \in Hosts |-> pc[h] # "top"]
    /\ ipc = "scan"
    /\ iqueue = <<>>
    /\ notified = [o \in ObjectsOf(bucket) |-> 0]
    /\ pass_start = <<>>
    /\ pass_gain = <<>>
    /\ passes = 0
    /\ runs = 0
    /\ CallersIdle

NextRouter ==
    \/ notify_any
    \/ update_stats
    \/ error_response

SpecRouter == InitRouter /\ [][NextRouter]_vars

\* ------------------------------------------------------ presence service
\* presence.py: GET /presence/<instrument>/<group_name>/<snap_index>/<detector_name>,
\* with the writer of the GROUP keys, record_groups of the ingest worker.
\* A name is a string of characters; a key is the tuple of the fields its
\* f-string joins with ":".

\* presence.py line 63
KnownInstruments == {"LATISS", "LSSTComCam", "LSSTComCamSim", "LSSTCam", "LSST-TS8"}

DigitChars == {"0", "1", "2", "3", "4", "5", "6", "7", "8", "9"}

\* re.match(r"R\d\d_S\d\d", detector_name), line 65: re.match anchors the
\* pattern at the start of the string only
re_match(d) ==
    /\ Len(d) >= 7
    /\ d[1] = "R" /\ d[2] \in DigitChars /\ d[3] \in DigitChars
    /\ d[4] = "_"
    /\ d[5] = "S" /\ d[6] \in DigitChars /\ d[7] \in DigitChars

\* "R01_S02", "R01_S02x", "R1_S2"
DetR01S02 == <<"R", "0", "1", "_", "S", "0", "2">>
DetTrailing == DetR01S02 \o <<"x">>
DetShort == <<"R", "1", "_", "S", "2">>

\* The URL parameters the clients send
QueryArgs ==
    [instrument : {"LATISS", "HSC"}, group_name : {"g1"}, snap_index : {0, 1},
     detector_name : {DetR01S02, DetTrailing, DetShort}]

\* line 67 and ingest.py line 186: the key
group_key(instrument, group, snap, detector) ==
    <<"GROUP", instrument, group, snap, detector>>

\* r.get(key): None for a key that does not exist
redis_get(store, key) == IF key \in DOMAIN store THEN store[key] ELSE None

\* SET key value
redis_set(store, key, value) ==
    [k \in DOMAIN store \cup {key} |-> IF k = key THEN value ELSE store[k]]

\* A DEL that leaves the key in place
redis_keep(store, key) == store

\* DEL key
redis_delete(store, key) == [k \in DOMAIN store \ {key} |-> store[k]]

\* "if result:", line 69: a value was read (the values record_groups writes
\* are non-empty)
found(result) == result # None

\* record_groups, lines 170-180: instrument.lower() and the match statement
lower(instrument) ==
    CASE instrument = "LATISS" -> "latiss"
      [] instrument = "ComCam" -> "comcam"
      [] OTHER -> instrument

canonical(instrument) ==
    CASE lower(instrument) \in {"lsstcomcamsim", "comcamsim"} -> "LSSTComCamSim"
      [] lower(instrument) \in {"lsstcomcam", "comcam"} -> "LSSTComCam"
      [] lower(instrument) = "lsstcam" -> "LSSTCam"
      [] lower(instrument) = "latiss" -> "LATISS"
      [] OTHER -> instrument

\* The FITS headers of the resources the worker records
Headers ==
    [INSTRUME : {"LATISS"}, GROUPID : {"g1"}, CURINDEX : {1, 2},
     RAFTBAY : {<<"R", "0", "1">>}, CCDSLOT : {<<"S", "0", "2">>}]

\* What str(res) can be: the URLs of two raw images
ResourceUrls ==
    { ObjectPath(<<"bucketA">>, Seq123, RawTail), ObjectPath(<<"bucketA">>, Seq5, RawTail) }

\* ingest.py lines 183-186: the key of a header
header_key(header) ==
    group_key(canonical(header.INSTRUME), header.GROUPID, header.CURINDEX - 1,
              header.RAFTBAY \o <<"_">> \o header.CCDSLOT)

RecordKeys == { header_key(header) : header \in Headers }

\* ingest.py lines 181-188 for one resource with a GROUPID header: the SET of
\* the pipeline
record_groups(header, res) ==
    /\ GROUP' = redis_set(GROUP, header_key(header), res)
    /\ UNCHANGED <<mainVars, rucioVars, pollVars, infoVars, delete_seen, qpc, qarg, qresult, response,
                   store_ops>>

\* ingest.py line 188: the key reaches its expiry
group_expires(key) ==
    /\ key \in DOMAIN GROUP
    /\ GROUP' = redis_delete(GROUP, key)
    /\ UNCHANGED <<mainVars, rucioVars, pollVars, infoVars, delete_seen, qpc, qarg, qresult, response,
                   store_ops>>

\* presence(), lines 62-76 up to the answer or to the DEL of line 72
presence_get(c, arg) ==
    LET key == group_key(arg.instrument, arg.group_name, arg.snap_index,
                         arg.detector_name)
        result == redis_get(GROUP, key) IN
    /\ qpc[c] \in {"idle", "answered"}
    /\ qarg' = [qarg EXCEPT ![c] = arg]
    /\ IF arg.instrument \notin KnownInstruments
       THEN /\ response' = [response EXCEPT ![c] =
                               [error |-> TRUE, status |-> 400,
                                message |-> "Unknown instrument"]]
            /\ qpc' = [qpc EXCEPT ![c] = "answered"]
            /\ store_ops' = [store_ops EXCEPT ![c] = 0]
            /\ UNCHANGED qresult
       ELSE IF ~re_match(arg.detector_name)
       THEN /\ response' = [response EXCEPT ![c] =
                               [error |-> TRUE, status |-> 400,
                                message |-> "Unrecognized detector name"]]
            /\ qpc' = [qpc EXCEPT ![c] = "answered"]
            /\ store_ops' = [store_ops EXCEPT ![c] = 0]
            /\ UNCHANGED qresult
       ELSE /\ store_ops' = [store_ops EXCEPT ![c] = 1]
            /\ qresult' = [qresult EXCEPT ![c] = result]
            /\ IF found(result)
               THEN IF delete_seen
                    THEN /\ qpc' = [qpc EXCEPT ![c] = "delete"]
                         /\ UNCHANGED response
                    ELSE /\ qpc' = [qpc EXCEPT ![c] = "answered"]
                         /\ response' = [response EXCEPT ![c] =
                                            [error |-> FALSE, present |-> TRUE,
                                             uri |-> result]]
               ELSE /\ qpc' = [qpc EXCEPT ![c] = "answered"]
                    /\ response' = [response EXCEPT ![c] =
                                       [error |-> FALSE, present |-> FALSE]]
    /\ UNCHANGED <<mainVars, rucioVars, pollVars, infoVars, delete_seen, GROUP>>

\* lines 72-73: r.delete(key) and the answer
presence_delete(c) ==
    LET arg == qarg[c]
        key == group_key(arg.instrument, arg.group_name, arg.snap_index,
                         arg.detector_name) IN
    /\ qpc[c] = "delete"
    /\ GROUP' = redis_delete(GROUP, key)
    /\ store_ops' = [store_ops EXCEPT ![c] = @ + 1]
    /\ response' = [response EXCEPT ![c] =
                       [error |-> FALSE, present |-> TRUE, uri |-> qresult[c]]]
    /\ qpc' = [qpc EXCEPT ![c] = "answered"]
    /\ UNCHANGED <<mainVars, rucioVars, pollVars, infoVars, delete_seen, qarg, qresult>>

MainQuiet ==
    /\ bucket = <<"bucketA">>
    /\ lists = [k \in ListKeys(bucket) |-> <<>>]
    /\ EXPSEEN = {}
    /\ FILE = [o \in ObjectsOf(bucket) |-> NoFile]
    /\ REC = [k \in StatKeys |-> 0]
    /\ RECINSTR = [k \in StatKeys |-> 0]
    /\ INGEST = [k \in StatKeys |-> 0]
    /\ FAIL = [k \in StatKeys |-> 0]
    /\ MAXSEQ = [k \in StatKeys |-> None]
    /\ rpc = "idle"
    /\ info_list = <<>>
    /\ request = <<>>
    /\ pc = [h \in Hosts |-> "top"]
    /\ resources = [h \in Hosts |-> <<>>]
    /\ idx = [h \in Hosts |-> 1]
    /\ single = [h \in Hosts |-> FALSE]
    /\ n = [h \in Hosts |-> 0]
    /\ alive = [h \in Hosts |-> TRUE]
    /\ looked = [h \in Hosts |-> pc[h] # "top"]
    /\ ipc = "scan"
    /\ iqueue = <<>>
    /\ notified = [o \in ObjectsOf(bucket) |-> 0]
    /\ pass_start = <<>>
    /\ pass_gain = <<>>
    /\ passes = 0
    /\ runs = 0
    /\ CallersIdle

InitPresence ==
    /\ MainQuiet
    /\ RucioQuiet
    /\ PollQuiet
    /\ InfoQuiet
    /\ delete_seen \in BOOLEAN
    /\ GROUP = <<>>
    /\ qpc = [c \in Clients |-> "idle"]
    /\ qarg = [c \in Clients |-> <<>>]
    /\ qresult = [c \in Clients |-> None]
    /\ response = [c \in Clients |-> <<>>]
    /\ store_ops = [c \in Clients |-> 0]

NextPresence ==
    \/ \E header \in Headers, res \in ResourceUrls : record_groups(header, res)
    \/ \E key \in RecordKeys : group_expires(key)
    \/ \E c \in Clients, arg \in QueryArgs : presence_get(c, arg)
    \/ \E c \in Clients : presence_delete(c)

SpecPresence == InitPresence /\ [][NextPresence]_vars

\* ------------------------------------------------------- Rucio interface
\* RucioInterface._add_files_to_dataset against one dataset.  The Rucio
\* server is outside the repository: a bulk attachment that names a file
\* already in the dataset raises FileAlreadyExists, having attached either
\* nothing or the files in front of that one; any request can fail with
\* DatabaseException.
max_retries == 2

\* The lists of distinct files a call can be given
RECURSIVE Distinct(_)
Distinct(seq) ==
    Len(seq) <= 1 \/ (seq[1] \notin { seq[i] : i \in 2..Len(seq) } /\ Distinct(Tail(seq)))

DidLists == { seq \in UNION { [1..k -> Files] : k \in 1..Cardinality(Files) } : Distinct(seq) }

\* The server attaches the files of a request
RECURSIVE attach(_, _)
attach(att, files) ==
    IF files = <<>> THEN att
    ELSE attach([att EXCEPT ![files[1]] = @ + 1], Tail(files))

\* The files of a request in front of the first one already attached
RECURSIVE before_conflict(_, _)
before_conflict(att, files) ==
    IF files = <<>> \/ att[files[1]] > 0 THEN <<>>
    ELSE <<files[1]>> \o before_conflict(att, Tail(files))

conflict(att, files) == \E i \in 1..Len(files) : att[files[i]] > 0

\* A handler that retries nothing
retry_none(dids) == <<>>

\* line 115: for did in dids
retry_each(dids) == dids

\* register() calls _add_files_to_dataset(dids, dataset_id), lines 100-102
add_files_call(dids) ==
    /\ apc \in {"idle", "returned", "raised"}
    /\ adids' = dids
    /\ retries' = 0
    /\ aidx' = 1
    /\ at_start' = attached
    /\ apc' = "bulk"
    /\ UNCHANGED <<mainVars, presenceVars, pollVars, infoVars, attached>>

\* lines 104-110: the bulk request succeeds
bulk_returns ==
    /\ apc = "bulk"
    /\ ~conflict(attached, adids)
    /\ attached' = attach(attached, adids)
    /\ apc' = "returned"
    /\ UNCHANGED <<mainVars, presenceVars, pollVars, infoVars, adids, aidx, retries, at_start>>

\* lines 111-115: the bulk request raises FileAlreadyExists
bulk_FileAlreadyExists ==
    /\ apc = "bulk"
    /\ conflict(attached, adids)
    /\ \/ UNCHANGED attached
       \/ attached' = attach(attached, before_conflict(attached, adids))
    /\ aidx' = 1
    /\ apc' = "each"
    /\ UNCHANGED <<mainVars, presenceVars, pollVars, infoVars, adids, retries, at_start>>

\* lines 126-132: the bulk request raises DatabaseException
bulk_DatabaseException ==
    /\ apc = "bulk"
    /\ retries' = retries + 1
    /\ apc' = IF retries + 1 < max_retries THEN "bulk" ELSE "raised"
    /\ UNCHANGED <<mainVars, presenceVars, pollVars, infoVars, attached, adids, aidx, at_start>>

\* lines 116-125: one request of the retry loop, FileAlreadyExists passed over
each_request ==
    /\ apc = "each"
    /\ IF aidx > Len(retry_each(adids))
       THEN /\ apc' = "returned"
            /\ UNCHANGED <<attached, aidx>>
       ELSE /\ attached' = IF attached[retry_each(adids)[aidx]] > 0 THEN attached
                           ELSE attach(attached, <<retry_each(adids)[aidx]>>)
            /\ aidx' = aidx + 1
            /\ UNCHANGED apc
    /\ UNCHANGED <<mainVars, presenceVars, pollVars, infoVars, adids, retries, at_start>>

\* lines 116-124: a request of the retry loop raises DatabaseException, which
\* no handler of the function catches there
each_DatabaseException ==
    /\ apc = "each"
    /\ aidx <= Len(retry_each(adids))
    /\ apc' = "raised"
    /\ UNCHANGED <<mainVars, presenceVars, pollVars, infoVars, attached, adids, aidx, retries, at_start>>

InitRucio ==
    /\ MainQuiet
    /\ PresenceQuiet
    /\ PollQuiet
    /\ InfoQuiet
    /\ attached \in [Files -> {0, 1}]
    /\ apc = "idle"
    /\ adids = <<>>
    /\ aidx = 1
    /\ retries = 0
    /\ at_start = attached

NextRucio ==
    \/ \E dids \in DidLists : add_files_call(dids)
    \/ bulk_returns
    \/ bulk_FileAlreadyExists
    \/ bulk_DatabaseException
    \/ each_request
    \/ each_DatabaseException

SpecRucio == InitRucio /\ [][NextRucio]_vars

\* ------------------------------------------------------- polling router
\* src/python/enqueue.py: the router that polls the hash REDIS_KEY, the
\* holding area, instead of receiving notifications.  Every Redis command is
\* a step of its own; several router processes may run at once (two pods
\* during a redeployment), and a process may die at any point.

\* The ways HKEYS may order the fields of S
OrderingsOf(S) ==
    { s \in [1..Cardinality(S) -> S] : \A i, j \in 1..Cardinality(S) :
                                          s[i] = s[j] => i = j }

\* exposure_info.py lines 29-49: the path splits into five parts (as every
\* identifier here does), the exposure id into four and the file name into
\* six; otherwise __init__ raises
poll_parses(o) == Len(o) = 5 /\ Len(o[4]) = 4 /\ Len(o[5]) = 6

\* The identifiers a producer may put into the holding area
PollObjects == UNION { ObjectsOf(b) : b \in Buckets }

\* The producer puts an identifier into the holding area, once
poll_deliver(o) ==
    /\ o \in ObjectsOf(bucket)
    /\ notified[o] = 0
    /\ HOLD' = HOLD \cup {o}
    /\ notified' = [notified EXCEPT ![o] = 1]
    /\ UNCHANGED <<bucket, presenceVars, rucioVars, infoVars, storeVars, routerVars,
                   workerVars, idleVars, runs, callerVars, RECEIVED, ppc,
                   pobjects, pidx, crashes>>

\* lines 29-34: objects = r.hkeys(redis_key); an empty answer is slept on
poll_hkeys(r) ==
    /\ ppc[r] = "hkeys"
    /\ HOLD # {}
    /\ \E objects \in OrderingsOf(HOLD) :
          pobjects' = [pobjects EXCEPT ![r] = objects]
    /\ pidx' = [pidx EXCEPT ![r] = 1]
    /\ ppc' = [ppc EXCEPT ![r] = "lpush"]
    /\ UNCHANGED <<bucket, presenceVars, rucioVars, infoVars, mainVars, HOLD, RECEIVED,
                   crashes>>

\* lines 35-40: one pass of the for loop, r.lpush(f"QUEUE:{e.bucket}", o)
poll_lpush(r) ==
    /\ ppc[r] = "lpush"
    /\ poll_parses(pobjects[r][pidx[r]])
    /\ lists' = lpush(lists, redis_queue(from_path(pobjects[r][pidx[r]]).bucket),
                      pobjects[r][pidx[r]])
    /\ IF pidx[r] < Len(pobjects[r])
       THEN /\ pidx' = [pidx EXCEPT ![r] = @ + 1]
            /\ UNCHANGED ppc
       ELSE /\ pidx' = [pidx EXCEPT ![r] = 1]
            /\ ppc' = [ppc EXCEPT ![r] = "hdel"]
    /\ UNCHANGED <<bucket, presenceVars, rucioVars, infoVars, EXPSEEN, FILE, REC, RECINSTR,
                   INGEST, FAIL, MAXSEQ, routerVars, workerVars, idleVars,
                   histVars, callerVars, HOLD, RECEIVED, pobjects, crashes>>

\* line 37: ExposureInfo raises (lines 56-58), nothing catches it, the
\* process ends
poll_ExposureInfo_raises(r) ==
    /\ ppc[r] = "lpush"
    /\ ~poll_parses(pobjects[r][pidx[r]])
    /\ crashes < MaxCrashes
    /\ crashes' = crashes + 1
    /\ ppc' = [ppc EXCEPT ![r] = "down"]
    /\ pobjects' = [pobjects EXCEPT ![r] = <<>>]
    /\ pidx' = [pidx EXCEPT ![r] = 1]
    /\ UNCHANGED <<bucket, presenceVars, rucioVars, infoVars, mainVars, HOLD, RECEIVED>>

\* HDEL key field...: the fields named are removed
hdel(hold, objects) == hold \ { objects[i] : i \in 1..Len(objects) }

\* line 41: r.hdel(redis_key, *objects)
poll_hdel(r) ==
    /\ ppc[r] = "hdel"
    /\ HOLD' = hdel(HOLD, pobjects[r])
    /\ ppc' = [ppc EXCEPT ![r] = "stats"]
    /\ UNCHANGED <<bucket, presenceVars, rucioVars, infoVars, mainVars, RECEIVED, pobjects,
                   pidx, crashes>>

\* lines 43-51: one pass of the second for loop (HINCRBY, ZADD GT, HSET and
\* EXPIRE of one object)
poll_stats(r) ==
    /\ ppc[r] = "stats"
    /\ LET o == pobjects[r][pidx[r]]
           e == from_path(o) IN
          /\ RECEIVED' = [RECEIVED EXCEPT ![stat_key(e)] = @ + 1]
          /\ MAXSEQ' = [MAXSEQ EXCEPT ![stat_key(e)] =
                           str(new_maxseq(@, int(e.seq_num)))]
          /\ FILE' = [FILE EXCEPT ![o].recv_time = TRUE]
    /\ IF pidx[r] < Len(pobjects[r])
       THEN /\ pidx' = [pidx EXCEPT ![r] = @ + 1]
            /\ UNCHANGED <<ppc, pobjects>>
       ELSE /\ pidx' = [pidx EXCEPT ![r] = 1]
            /\ pobjects' = [pobjects EXCEPT ![r] = <<>>]
            /\ ppc' = [ppc EXCEPT ![r] = "hkeys"]
    /\ UNCHANGED <<bucket, presenceVars, rucioVars, infoVars, lists, EXPSEEN, REC, RECINSTR,
                   INGEST, FAIL, routerVars, workerVars, idleVars, histVars,
                   callerVars, HOLD, crashes>>

\* The process dies between two commands of lines 35-51
poll_crash(r) ==
    /\ ppc[r] \in {"lpush", "hdel", "stats"}
    /\ crashes < MaxCrashes
    /\ crashes' = crashes + 1
    /\ ppc' = [ppc EXCEPT ![r] = "down"]
    /\ pobjects' = [pobjects EXCEPT ![r] = <<>>]
    /\ pidx' = [pidx EXCEPT ![r] = 1]
    /\ UNCHANGED <<bucket, presenceVars, rucioVars, infoVars, mainVars, HOLD, RECEIVED>>

\* lines 13-27: the process is started again; no worker list holds anything,
\* so the scan of lines 18-25 restores nothing
poll_start(r) ==
    /\ ppc[r] = "down"
    /\ \A h \in Hosts : lists[wq(h)] = <<>>
    /\ ppc' = [ppc EXCEPT ![r] = "hkeys"]
    /\ UNCHANGED <<bucket, presenceVars, rucioVars, infoVars, mainVars, HOLD, RECEIVED,
                   pobjects, pidx, crashes>>

InitPoll ==
    /\ MainQuiet
    /\ PresenceQuiet
    /\ RucioQuiet
    /\ PollQuiet
    /\ InfoQuiet

NextPoll ==
    \/ \E o \in PollObjects : poll_deliver(o)
    \/ \E r \in Routers :
         \/ poll_hkeys(r)
         \/ poll_lpush(r)
         \/ poll_ExposureInfo_raises(r)
         \/ poll_hdel(r)
         \/ poll_stats(r)
         \/ poll_crash(r)
         \/ poll_start(r)

SpecPoll == InitPoll /\ [][NextPoll]_vars

\* ------------------------------------------------------------ the parser
\* info.py: Info.from_path with its two variants, on names in full.  A name
\* is the sequence of its "/" components and a component the sequence of its
\* "_" parts (":" parts for the bucket); "s3://b/k" has the components "s3:",
\* "" and those of "b/k".

\* The parts in which the string "rubinobs-lfa-" occurs
LfaParts == {"rubinobs-lfa-main", "rubinobs-lfa-cp", "rubinobs-lfa-x.fits"}

\* What follows the bucket: a raw image, a raw image whose file name holds
\* the LFA string, LFA objects of six, seven and eight components, and an
\* object of six components under a directory whose name holds the LFA string
InfoTails ==
    { << <<"inst">>, <<"20240101">>, <<"INST", "C", "20240101", "000123">>,
         <<"INST", "C", "20240101", "000123", "R01", "S02.fits">> >>,
      << <<"inst">>, <<"20240101">>, <<"INST", "C", "20240101", "000123">>,
         <<"rubinobs-lfa-x.fits">> >>,
      << <<"LATISS">>, <<"2024">>, <<"01">>, <<"01">>, <<"f.fits">> >>,
      << <<"ATcamera">>, <<"gen">>, <<"2024">>, <<"01">>, <<"01">>, <<"f.fits">> >>,
      << <<"ATcamera">>, <<"gen">>, <<"2024">>, <<"01">>, <<"01">>, <<"dir">>,
         <<"f.fits">> >>,
      << <<"rubinobs-lfa-cp">>, <<"2024">>, <<"01">>, <<"01">>, <<"f.fits">> >> }

\* enqueue.py lines 128-130: bucket name, "/", key
InfoNames == { <<b>> \o t : b \in InfoBuckets, t \in InfoTails }

\* ingest.py line 227: f"s3://{b.decode()}"
s3_url(name) == << <<"s3:">>, <<>> >> \o name

\* info.py line 71: url.startswith("s3://")
startswith_s3(url) == Len(url) >= 3 /\ url[1] = <<"s3:">> /\ url[2] = <<>>

\* A from_path that leaves the scheme on the URL
keep_scheme(url) == url

\* info.py lines 71-72
strip_scheme(url) ==
    IF startswith_s3(url) THEN SubSeq(url, 3, Len(url)) ELSE url

\* info.py line 73: "rubinobs-lfa-" in url
in_url(url) ==
    \E i \in 1..Len(url) : \E j \in 1..Len(url[i]) : url[i][j] \in LfaParts

\* The descriptor of a constructor that raised
Raised == [kind |-> "raise", path |-> <<>>, bucket |-> <<>>]

\* info.py lines 111-131: ExposureInfo.__init__
ExposureInfo(path) ==
    IF Len(path) = 5 /\ Len(path[4]) = 4
    THEN [kind |-> "ExposureInfo", path |-> path, bucket |-> path[1],
          instrument |-> <<path[2]>>,
          obs_day |-> path[3], filename |-> path[5]]
    ELSE Raised

\* info.py lines 150-167: LfaInfo.__init__
LfaInfo(path) ==
    IF Len(path) \in {7, 8}
    THEN [kind |-> "LfaInfo", path |-> path, bucket |-> path[1],
          instrument |-> <<path[2], path[3]>>,
          obs_day |-> path[4] \o path[5] \o path[6],
          filename |-> path[Len(path)]]
    ELSE IF Len(path) = 6
    THEN [kind |-> "LfaInfo", path |-> path, bucket |-> path[1],
          instrument |-> <<path[2]>>,
          obs_day |-> path[3] \o path[4] \o path[5],
          filename |-> path[6]]
    ELSE Raised

\* info.py lines 71-76: Info.from_path on a name in full
Info_from_path(url) ==
    IF in_url(strip_scheme(url))
    THEN LfaInfo(strip_scheme(url))
    ELSE ExposureInfo(strip_scheme(url))

\* enqueue.py lines 64-74 for one name: from_path, and LPUSH of the name on
\* QUEUE:<info.bucket>; a from_path that raises ends the request
info_enqueue(o) ==
    /\ o \notin parsed
    /\ Cardinality(parsed) < MaxInfo
    /\ parsed' = parsed \cup {o}
    /\ wqueue' = IF Info_from_path(o).kind = "raise" THEN wqueue
                 ELSE [wqueue EXCEPT ![Info_from_path(o).bucket] = <<o>> \o @]
    /\ UNCHANGED <<mainVars, presenceVars, rucioVars, pollVars, wlist, wres,
                   wlast, wbefore>>

\* ingest.py lines 298-301: a move of the RIGHT entry of the queue onto the
\* worker list of the bucket's worker
info_blmove(b) ==
    /\ wqueue[b] # <<>>
    /\ wres[b] = <<>>
    /\ wqueue' = [wqueue EXCEPT ![b] = SubSeq(@, 1, Len(@) - 1)]
    /\ wlist' = [wlist EXCEPT ![b] = <<Last(wqueue[b])>> \o @]
    /\ UNCHANGED <<mainVars, presenceVars, rucioVars, pollVars, parsed, wres,
                   wlast, wbefore>>

\* ingest.py lines 225-227: blobs and resources (the blob is kept next to the
\* URL built from it)
info_resources(b) ==
    /\ wlist[b] # <<>>
    /\ wres[b] = <<>>
    /\ wres' = [wres EXCEPT ![b] =
                  [i \in 1..Len(wlist[b]) |->
                      [blob |-> wlist[b][i], url |-> s3_url(wlist[b][i])]]]
    /\ UNCHANGED <<mainVars, presenceVars, rucioVars, pollVars, parsed, wqueue,
                   wlist, wlast, wbefore>>

\* ingest.py lines 84-90, 115-117, 136-139 and 256-257: a callback for the
\* next resource, info = Info.from_path(<its URL>) and
\* lrem(worker_queue, 0, info.path); a from_path that raises removes nothing
info_callback(b) ==
    /\ wres[b] # <<>>
    /\ wlast' = wres[b][1].blob
    /\ wbefore' = wlist[b]
    /\ wlist' = IF Info_from_path(wres[b][1].url).kind = "raise" THEN wlist
                ELSE [wlist EXCEPT ![b] =
                         Without(@, Info_from_path(wres[b][1].url).path)]
    /\ wres' = [wres EXCEPT ![b] = Tail(@)]
    /\ UNCHANGED <<mainVars, presenceVars, rucioVars, pollVars, parsed, wqueue>>

InitInfo ==
    /\ MainQuiet
    /\ PresenceQuiet
    /\ RucioQuiet
    /\ PollQuiet
    /\ InfoQuiet

NextInfo ==
    \/ \E o \in InfoNames : info_enqueue(o)
    \/ \E b \in InfoBuckets :
         \/ info_blmove(b)
         \/ info_resources(b)
         \/ info_callback(b)

SpecInfo == InitInfo /\ [][NextInfo]_vars

\* ------------------------------------------------------------ properties
\* How many times an identifier occurs on the lists, and on how many lists
Occurrences(o) ==
    Cardinality(UNION { { <<k, i>> : i \in { j \in 1..Len(lists[k]) : lists[k][j] = o } } :
                          k \in DOMAIN lists })

Places(o) ==
    Cardinality({ k \in DOMAIN lists : \E i \in 1..Len(lists[k]) : lists[k][i] = o })

InSomeList(o) == Places(o) > 0

\* A resolution on record: ingested, abandoned at MAX_FAILURES, or a metadata
\* failure
Resolved(o) ==
    \/ FILE[o].ingest_time
    \/ FILE[o].md_fail_exc
    \/ FILE[o].ing_fail_count >= MAX_FAILURES

\* C1, as amended: an identifier the router has accepted at most once occurs
\* at most once over the bucket queue, the worker lists and the wait sets,
\* whatever the workers and the idle service have done with it.
C1_AcceptedOnceInOnePlace ==
    \A o \in ObjectsOf(bucket) : notified[o] <= 1 => Occurrences(o) <= 1

\* C1 witness: an identifier accepted once that a worker has failed on, the
\* idle service has restored and a worker holds again.
C1_Witness ==
    \E o \in ObjectsOf(bucket), h \in Hosts :
        /\ notified[o] = 1
        /\ FILE[o].ing_fail_count > 0
        /\ passes = 1 /\ ipc = "scan"
        /\ Count(lists[wq(h)], o) = 1

\* C1 as stated: every identifier is on at most one of the lists, after any
\* sequence of notifications.
C1_EveryIdentifierInOnePlace ==
    \A o \in ObjectsOf(bucket) : Places(o) <= 1

\* C2 as stated: an identifier notified once is never in the engine of two
\* workers at once.
C2_OneWorkerProcessing ==
    \A o \in ObjectsOf(bucket) : \A h1, h2 \in Hosts :
        (/\ notified[o] = 1
         /\ h1 # h2
         /\ InEngine(h1) /\ Current(h1) = o
         /\ InEngine(h2)) => Current(h2) # o

\* C3 as stated: when the idle service has emptied the list of a killed
\* worker, QUEUE:<bucket> has received exactly the entries the list held.
C3_QueueGainsLeasedItems ==
    (ipc = "move" /\ pass_start # <<>> /\ lists[iqueue] = <<>>)
        => pass_gain = pass_start

\* C4 as stated, for the identifiers that need no exposure: an accepted
\* identifier is on a list or has a resolution on record; it never
\* disappears from every list unresolved.
C4_AcceptedNeverLost ==
    \A o \in ObjectsOf(bucket) :
        (notified[o] > 0 /\ ~needs_exposure(from_path(o)))
            => (InSomeList(o) \/ Resolved(o))


\* C5: no step lowers a MAXSEQ key: a key that holds a value keeps holding
\* one, and the value after the step is at least the value before it.
C5_MaxseqNeverDecreases ==
    [][\A k \in StatKeys :
          MAXSEQ[k] # None =>
              (MAXSEQ'[k] # None /\ int(MAXSEQ'[k]) >= int(MAXSEQ[k]))]_vars

\* C5 witness: a request has committed a write over an earlier value while
\* another request, which had read the key before that write, is retrying.
C5_Witness ==
    \E c, d \in Callers :
        /\ cpc[c] = "done" /\ cpc[d] = "watch"
        /\ seqnum_key(c) = seqnum_key(d)
        /\ cprev[seqnum_key(c)] # None
        /\ MAXSEQ[seqnum_key(c)] # cprev[seqnum_key(c)]
        /\ ccurrent[d] = cprev[seqnum_key(d)]

\* The sequence numbers the requests record for key k, with the value the
\* key held before them
Recorded(k) ==
    UNION { { int(from_path(cbatch[c][i]).seq_num) : i \in 1..Len(cbatch[c]) } :
              c \in { d \in Callers : cbatch[d] # <<>> /\ seqnum_key(d) = k } }
      \cup (IF cprev[k] = None THEN {} ELSE {int(cprev[k])})

SetMax(S) == CHOOSE x \in S : \A y \in S : y <= x

AllReturned == \A c \in Callers : cbatch[c] # <<>> /\ cpc[c] = "done"

\* C6: once every concurrent update_stats call has returned, each MAXSEQ key
\* holds the largest of the sequence numbers recorded for it and the value
\* it held before.
C6_ConvergesToMaximum ==
    AllReturned =>
        \A k \in StatKeys :
            Recorded(k) # {} => MAXSEQ[k] = str(SetMax(Recorded(k)))

\* C6 witness: the calls carrying 5, 3, 9 and 1 have all returned over a
\* previous value of 4, and the key holds 9.
C6_Witness ==
    /\ AllReturned
    /\ \E k \in StatKeys :
          /\ Recorded(k) = {1, 3, 4, 5, 9}
          /\ cprev[k] = str(4)
          /\ MAXSEQ[k] = str(9)

\* C7 as stated: an identifier with one or two ingest failures on record
\* (and no success, no metadata failure) is still on a list.
C7_KeptBelowMaxFailures ==
    \A o \in ObjectsOf(bucket) :
        (/\ FILE[o].ing_fail_count \in 1..(MAX_FAILURES - 1)
         /\ ~FILE[o].ingest_time
         /\ ~FILE[o].md_fail_exc) => InSomeList(o)

\* C8 as stated, for an identifier accepted once and never restored by the
\* idle service (so that one worker only has ever held it): once its
\* metadata failure is on record, no worker has it in the engine.
C8_NotHandedAgain ==
    \A o \in ObjectsOf(bucket) : \A h \in Hosts :
        (/\ notified[o] = 1
         /\ passes = 0
         /\ FILE[o].md_fail_exc
         /\ InEngine(h)) => Current(h) # o

\* C9 as stated: once an exposure's raw image is ingested, the wait set of
\* the exposure is empty, its entries having gone to the worker's list in
\* the success callback.
C9_WaitSetFlushedOnSuccess ==
    \A o \in ObjectsOf(bucket) :
        (~needs_exposure(from_path(o)) /\ FILE[o].ingest_time)
            => lists[expwait_key(from_path(o).exp_id)] = <<>>

\* Where the claim routes an identifier that passed the filter
expected_list(o) ==
    LET info == from_path(o) IN
    IF needs_exposure(info) /\ info.exp_id \notin EXPSEEN
    THEN expwait_key(info.exp_id)
    ELSE redis_queue(info.bucket)

\* C10 as stated: a step of enqueue_objects appends every identifier of its
\* info_list to exactly one list, the wait set of its exposure or the queue
\* of its bucket.
C10_AppendedToExactlyOneList ==
    [][(rpc = "idle" /\ rpc' = "stats") =>
          \A o \in ObjectsOf(bucket) :
              /\ Occurrences(o)' = Occurrences(o) + Count(info_list', o)
              /\ Count(lists'[expected_list(o)], o) =
                     Count(lists[expected_list(o)], o) + Count(info_list', o)]_vars

\* The identifiers enqueue_objects queues a push for (enqueue.py:66-73)
queues_push(o) ==
    /\ regexp_search(o)
    /\ needs_exposure(from_path(o)) => from_path(o).exp_id \notin EXPSEEN

\* C14: the pushes of one request take effect in the one step of its
\* pipeline: that step adds every identifier the request pushes, as often as
\* the request holds it, and no other step of any process adds an
\* occurrence of an identifier to the lists.
C14_BatchAppendsInOneStep ==
    [][\A o \in ObjectsOf(bucket) :
          IF rpc = "idle" /\ rpc' = "stats"
          THEN Occurrences(o)' =
                  Occurrences(o) + (IF queues_push(o) THEN Count(info_list', o) ELSE 0)
          ELSE Occurrences(o)' <= Occurrences(o)]_vars

\* C14 witness: a request of two identifiers is in the queue and on a worker
\* list while the request is still in progress.
C14_Witness ==
    /\ rpc = "stats"
    /\ Len(info_list) = 2 /\ info_list[1] # info_list[2]
    /\ \E h \in Hosts :
          /\ lists[wq(h)] = <<info_list[1]>>
          /\ lists[redis_queue(bucket)] = <<info_list[2]>>

\* C15: as long as the idle service has returned nothing, the bucket queue
\* changes only by pushes at its LEFT end and by moves of its RIGHT entry
\* onto the LEFT of a worker list: an entry leaves before every entry pushed
\* after it.
C15_LeasedInArrivalOrder ==
    [][passes = 0 =>
          LET old == lists[redis_queue(bucket)]
              new == lists'[redis_queue(bucket)] IN
          \/ new = old
          \/ /\ Len(new) > Len(old)
             /\ SubSeq(new, Len(new) - Len(old) + 1, Len(new)) = old
          \/ /\ old # <<>>
             /\ new = SubSeq(old, 1, Len(old) - 1)
             /\ \E h \in Hosts :
                   lists'[wq(h)] = <<Last(old)>> \o lists[wq(h)]]_vars

\* C15 witness: two different identifiers, pushed while the other was in the
\* queue or after it, are on one worker list, the later one LEFT.
C15_Witness ==
    /\ passes = 0
    /\ lists[redis_queue(bucket)] = <<>>
    /\ \E h \in Hosts :
          /\ Len(lists[wq(h)]) = 2
          /\ lists[wq(h)][1] # lists[wq(h)][2]
          /\ pc[h] = "top"

\* C16 as stated: no entry is ever in a QUEUE list other than the queue of
\* the workers' bucket.
C16_ReturnedToOwnQueue ==
    \A k \in DOMAIN lists :
        (k[1] = "QUEUE" /\ k # redis_queue(bucket)) => lists[k] = <<>>

\* C17: a step that changes an INGEST counter is the success callback of one
\* worker for one identifier: it removes the identifier from that worker's
\* list, sets ingest_time in its FILE record, adds 1 to the INGEST counter of
\* its key, and changes no other list, record or counter.
C17_SuccessCallbackIsOneStep ==
    [][INGEST' # INGEST =>
          \E h \in Hosts, o \in ObjectsOf(bucket) :
              /\ lists' = [lists EXCEPT ![wq(h)] = Without(@, o)]
              /\ Count(lists'[wq(h)], o) = 0
              /\ FILE' = [FILE EXCEPT ![o].ingest_time = TRUE]
              /\ INGEST' = [INGEST EXCEPT ![stat_key(from_path(o))] = @ + 1]
              /\ UNCHANGED <<EXPSEEN, REC, RECINSTR, FAIL, MAXSEQ>>]_vars

\* C17 witness: an identifier accepted once has been ingested: it has its
\* ingest_time, its INGEST counter is 1 and it is on no list.
C17_Witness ==
    \E o \in ObjectsOf(bucket) :
        /\ notified[o] = 1
        /\ FILE[o].ingest_time
        /\ INGEST[stat_key(from_path(o))] = 1
        /\ ~InSomeList(o)

\* C18 as stated: when the POST of a success callback ends, in an answer or in
\* an error, the worker goes on with the resources the engine has not been
\* given yet; it does not start over on the batch.
C18_PostFailureLeavesWorkAlone ==
    [][\A h \in Hosts :
          (pc[h] = "webhook" /\ pc'[h] # "webhook") =>
              \/ pc'[h] \in {"run", "ran1", "blmove"}
              \/ pc'[h] = "run1" /\ idx'[h] > idx[h]]_vars

\* C20 as stated, for the store after the success: once bucketA/inst/20240101/
\* INST_C_20240101_000123/INST_C_20240101_000123_R01_S02.fits has been
\* notified once (the request answered) and the engine has reported its
\* success, its MAXSEQ key holds at least 123 and the identifier is on no
\* list.
C20_EndToEnd ==
    LET o == ObjectPath(<<"bucketA">>, Seq123, RawTail)
        k == stat_key(from_path(o)) IN
    (/\ bucket = <<"bucketA">>
     /\ rpc = "idle"
     /\ notified[o] = 1
     /\ FILE[o].ingest_time)
        => /\ MAXSEQ[k] # None /\ int(MAXSEQ[k]) >= 123
           /\ ~InSomeList(o)

\* How many records of a request carry the secret and name the identifier
GoodCount(recs, o) ==
    Cardinality({ i \in 1..Len(recs) :
                    recs[i].opaqueData = notification_secret /\ recs[i].object = o })

\* C11: a malformed identifier is dropped inside the intake, no exception
\* reaches the caller of the intake, and every well-formed identifier of the
\* same request is routed: whenever the service is through with a record that
\* carries the secret, passes the filter and parses, the identifier is on its
\* destination list as often as the request names it.
C11_MalformedDroppedAlone ==
    /\ rpc # "raised"
    /\ \A i \in 1..Len(request) :
          LET o == request[i].object IN
          (request[i].opaqueData = notification_secret /\ regexp_search(o) /\ parses(o))
             => Occurrences(o) >= GoodCount(request, o)

\* C12: an identifier that fails the name filter is on no list, has no file
\* record, and adds nothing to the received counters or the maximum sequence
\* number.
C12_FilteredOutChangesNothing ==
    LET o == NotFits(bucket) IN
    /\ Occurrences(o) = 0
    /\ FILE[o] = NoFile
    /\ \A k \in StatKeys :
          /\ MAXSEQ[k] # str(999)
          /\ rpc = "idle" => (REC[k] = Delivered /\ RECINSTR[k] = Delivered)

C12_Witness ==
    LET k == stat_key(from_path(NotFits(bucket))) IN
    /\ rpc = "idle"
    /\ Len(request) = 2
    /\ request[1] = [opaqueData |-> notification_secret, object |-> NotFits(bucket)]
    /\ request[2] = [opaqueData |-> notification_secret,
                     object |-> ObjectPath(bucket, Seq5, RawTail)]
    /\ lists[redis_queue(bucket)] = <<ObjectPath(bucket, Seq5, RawTail)>>
    /\ REC[k] = 1
    /\ MAXSEQ[k] = str(5)

\* C13: of one request, exactly the records carrying the secret are taken:
\* the accepted names are those of the records with the secret, a list gains
\* an identifier once per such record and never for a record with another
\* token, and the received counters rise by the number of such records.
C13_WrongSecretNeverRouted ==
    [][/\ (rpc = "idle" /\ rpc' = "stats") =>
            \A o \in ObjectsOf(bucket) :
               /\ Count(info_list', o) = GoodCount(request', o)
               /\ notified'[o] = notified[o] + GoodCount(request', o)
               /\ Occurrences(o)' = Occurrences(o)
                      + (IF queues_push(o) THEN GoodCount(request', o) ELSE 0)
       /\ (rpc = "stats" /\ rpc' = "idle") =>
            \A k \in StatKeys :
               /\ REC'[k] = REC[k] + Len(info_list)
               /\ RECINSTR'[k] = RECINSTR[k] + Len(info_list)]_vars

C13_Witness ==
    LET k == stat_key(from_path(ObjectPath(bucket, Seq5, RawTail))) IN
    /\ rpc = "idle"
    /\ Len(request) = 2
    /\ request[1] = [opaqueData |-> "other", object |-> ObjectPath(bucket, Seq123, RawTail)]
    /\ request[2] = [opaqueData |-> notification_secret,
                     object |-> ObjectPath(bucket, Seq5, RawTail)]
    /\ \A key \in DOMAIN lists :
          lists[key] = IF key = redis_queue(bucket)
                       THEN <<ObjectPath(bucket, Seq5, RawTail)>> ELSE <<>>
    /\ REC[k] = 1
    /\ MAXSEQ[k] = str(5)

\* C19: every one of the concurrent update_stats calls eventually returns,
\* and from then on its MAXSEQ key holds a committed value no smaller than the
\* largest sequence number of the call: a call whose EXEC meets a concurrent
\* write goes round the loop again and never leaves it with an error.
C19_EveryCallCommits ==
    <>[](\A c \in Callers :
            /\ cpc[c] = "done"
            /\ MAXSEQ[seqnum_key(c)] # None
            /\ int(MAXSEQ[seqnum_key(c)])
                  >= batch_max(SeqOfKey(cbatch[c], seqnum_key(c)), 0))

\* C19 witness: a call that had read a value written by a second call sees
\* its EXEC refused because a third call has written since, and is about to
\* go round again while the other calls have returned.
C19_Witness ==
    \E d \in Callers :
        /\ cpc[d] = "watch"
        /\ ccurrent[d] \notin {None, cprev[seqnum_key(d)], MAXSEQ[seqnum_key(d)]}
        /\ \A c \in Callers \ {d} : cpc[c] = "done"

\* The detector name has the shape RNN_SNN
RaftSensor(d) == Len(d) = 7 /\ re_match(d)

ValidQuery(arg) ==
    arg.instrument \in KnownInstruments /\ RaftSensor(arg.detector_name)

QueryKey(arg) ==
    group_key(arg.instrument, arg.group_name, arg.snap_index, arg.detector_name)

\* All that a request of client c has set
QueryState(c) == <<qpc[c], qarg[c], qresult[c], response[c], store_ops[c]>>

\* C21: a presence request whose instrument is unknown or whose detector
\* name is not of the shape RNN_SNN is answered with error = true and a
\* message, and has sent no command to the store.
C21_InvalidInputNeverReachesStore ==
    \A c \in Clients :
        (qpc[c] \in {"answered", "delete"} /\ ~ValidQuery(qarg[c]))
           => /\ qpc[c] = "answered"
              /\ response[c].error
              /\ store_ops[c] = 0

\* C22: for valid input, the request that reads the store answers
\* present = true with the stored identifier exactly when the record of its
\* key exists, and present = false otherwise; with delete-on-seen the request
\* that found the record deletes it before it answers, so that the record is
\* absent until it is written again.
C22_PresentIffRecorded ==
    [][\A c \in Clients :
         /\ (/\ qpc[c] \in {"idle", "answered"}
             /\ QueryState(c)' # QueryState(c)
             /\ ValidQuery(qarg'[c]))
            => IF QueryKey(qarg'[c]) \in DOMAIN GROUP
               THEN IF delete_seen
                    THEN qpc'[c] = "delete" /\ qresult'[c] = GROUP[QueryKey(qarg'[c])]
                    ELSE /\ qpc'[c] = "answered"
                         /\ response'[c] = [error |-> FALSE, present |-> TRUE,
                                            uri |-> GROUP[QueryKey(qarg'[c])]]
               ELSE /\ qpc'[c] = "answered"
                    /\ response'[c] = [error |-> FALSE, present |-> FALSE]
         /\ (qpc[c] = "delete" /\ qpc'[c] # "delete")
            => /\ QueryKey(qarg[c]) \notin DOMAIN GROUP'
               /\ response'[c] = [error |-> FALSE, present |-> TRUE, uri |-> qresult[c]]]_vars

\* C22 witness: with delete-on-seen, one client was answered present = true
\* with the stored identifier after its GET and DEL, and the other client,
\* asking for the same key afterwards, was answered present = false.
C22_Witness ==
    \E c, d \in Clients :
        /\ delete_seen
        /\ c # d
        /\ qpc[c] = "answered" /\ qpc[d] = "answered"
        /\ ValidQuery(qarg[c]) /\ qarg[d] = qarg[c]
        /\ store_ops[c] = 2 /\ store_ops[d] = 1
        /\ response[c] = [error |-> FALSE, present |-> TRUE,
                          uri |-> ObjectPath(<<"bucketA">>, Seq123, RawTail)]
        /\ response[d] = [error |-> FALSE, present |-> FALSE]
        /\ QueryKey(qarg[c]) \notin DOMAIN GROUP

\* The files the last call was given
CallFiles == { adids[i] : i \in 1..Len(adids) }

\* C23: a call of _add_files_to_dataset that has returned leaves every file
\* it was given attached exactly once, whichever of them were attached
\* before; no file is ever attached twice; and a call that began with all its
\* files attached, as after an earlier call with the same files, returns
\* with the dataset as it found it.
C23_AddFilesIdempotent ==
    /\ \A f \in Files : attached[f] <= 1
    /\ apc = "returned" =>
          /\ \A f \in CallFiles : attached[f] = 1
          /\ \A f \in Files \ CallFiles : attached[f] = at_start[f]
          /\ (\A f \in CallFiles : at_start[f] = 1) => attached = at_start

\* C23 witness: a call given three files of which one was attached has
\* returned through the one-by-one retry with all three attached once.
C23_Witness ==
    /\ apc = "returned"
    /\ aidx = 4
    /\ CallFiles = Files
    /\ Cardinality({ f \in Files : at_start[f] = 1 }) = 1
    /\ \A f \in Files : attached[f] = 1

\* C24: a worker lease list never holds more than max_ingests identifiers,
\* and the batch read from it for the engine never has more.
C24_LeaseWithinCeiling ==
    \A h \in Hosts :
        /\ Len(lists[wq(h)]) <= max_ingests
        /\ Len(resources[h]) <= max_ingests

\* C25: a worker that waits in the blocking move on an empty destination
\* queue has an empty lease list.
C25_BlockedOnlyWhenLeaseEmpty ==
    \A h \in Hosts :
        (alive[h] /\ pc[h] = "blmove" /\ lists[redis_queue(bucket)] = <<>>)
           => lists[wq(h)] = <<>>

\* An item is left on the lease list of a waiting worker after its first
\* ingest failure
LeftAfterFailure(o) ==
    \E h \in Hosts :
        /\ alive[h] /\ pc[h] = "blmove"
        /\ Count(lists[wq(h)], o) > 0
        /\ FILE[o].ing_fail_count = 1

\* The item is in the batch a worker has handed to the engine
Handed(o) == \E h \in Hosts : Count(resources[h], o) > 0

\* C26: an item left on a lease list after its first ingest failure is
\* eventually handed to the engine again, with nothing further enqueued.
C26_LeftOverHandedAgain ==
    \A b \in Buckets :
        (bucket = b /\ LeftAfterFailure(ObjectPath(b, Seq123, RawTail)))
           ~> Handed(ObjectPath(b, Seq123, RawTail))

\* C28: whenever a step of a worker takes an item off its lease list for
\* good, and the step is not the recording of a success, the File Status
\* Record of the item holds an error text (which the failure callbacks write
\* together with the FAIL counter).
C28_RemovalHasFailureRecord ==
    [][\A h \in Hosts : \A o \in ObjectsOf(bucket) :
          (/\ Count(lists[wq(h)], o) > 0
           /\ Count(lists'[wq(h)], o) = 0
           /\ Occurrences(o)' < Occurrences(o)
           /\ INGEST' = INGEST)
             => (FILE'[o].ing_fail_exc \/ FILE'[o].md_fail_exc)]_vars

\* C27: a step of the idle service that returns an entry puts it on the LEFT
\* end of its destination list, behind every entry that list already holds, and
\* a list named QUEUE loses entries only at its RIGHT end, onto the LEFT of a
\* worker list: the entries that were there first are leased first.
C27_ReclaimedBehindQueued ==
    [][/\ (/\ ipc = "move"
           /\ Len(lists'[iqueue]) < Len(lists[iqueue])
           /\ Len(lists'[idle_dest(iqueue)]) > Len(lists[idle_dest(iqueue)]))
          => lists'[idle_dest(iqueue)]
                = <<Last(lists[iqueue])>> \o lists[idle_dest(iqueue)]
       /\ Len(lists'[redis_queue(bucket)]) < Len(lists[redis_queue(bucket)])
          => /\ lists'[redis_queue(bucket)]
                   = SubSeq(lists[redis_queue(bucket)], 1,
                            Len(lists[redis_queue(bucket)]) - 1)
             /\ \E h \in Hosts :
                   lists'[wq(h)]
                      = <<Last(lists[redis_queue(bucket)])>> \o lists[wq(h)]]_vars

\* C27 witness: the idle service has emptied a worker list onto a bucket queue
\* that held another identifier, and no ingest has run: the queue holds both.
C27_Witness ==
    /\ ipc = "move"
    /\ passes = 1
    /\ runs = 0
    /\ iqueue \in WorkerKeys(bucket)
    /\ lists[iqueue] = <<>>
    /\ idle_dest(iqueue) = redis_queue(bucket)
    /\ Len(lists[redis_queue(bucket)]) = 2
    /\ lists[redis_queue(bucket)][1] # lists[redis_queue(bucket)][2]

\* The descriptors of key k that the calls 1..c have recorded in their pipeline
RECURSIVE PipelinedUpTo(_, _)
PipelinedUpTo(c, k) ==
    IF c = 0 THEN 0
    ELSE PipelinedUpTo(c - 1, k)
         + (IF cpc[c] = "pipeline" THEN 0
            ELSE Cardinality({ i \in 1..Len(cbatch[c]) :
                                 stat_key(from_path(cbatch[c][i])) = k }))

\* C29: whatever the interleaving of the concurrent update_stats calls, each
\* REC and RECINSTR counter is its previous value (0 before the calls) plus
\* the number of descriptors the calls have recorded so far, and so, once all
\* have returned, plus the descriptors of all of them.
C29_CountersAddUp ==
    \A k \in StatKeys :
        /\ REC[k] = PipelinedUpTo(NCallers, k)
        /\ RECINSTR[k] = PipelinedUpTo(NCallers, k)

\* C29 witness: three calls, two of them with two descriptors, have returned
\* and the counters of their key stand at five.
C29_Witness ==
    /\ AllReturned
    /\ \E k \in StatKeys :
          /\ REC[k] = 5
          /\ RECINSTR[k] = 5
          /\ PipelinedUpTo(NCallers, k) = 5

\* C30 as stated: an identifier put into the holding area once is at most
\* once on its destination queue, whatever the routers do.
C30_RoutedExactlyOnce ==
    \A o \in ObjectsOf(bucket) :
        notified[o] <= 1 =>
            Count(lists[redis_queue(from_path(o).bucket)], o) <= 1

\* The names the parser constructs an LfaInfo for, and the other names
IsLfa(o) == in_url(strip_scheme(o))

\* C31 as stated: two names with the same bucket component are parsed by the
\* same variant.
C31_VariantByBucketAlone ==
    \A a \in parsed : \A b \in parsed :
        a[1] = b[1] => IsLfa(a) = IsLfa(b)

C33_OwnListBeforeNewLease ==
    [][\A h \in Hosts :
          /\ (/\ alive[h] /\ alive'[h]
              /\ Len(lists'[wq(h)]) > Len(lists[wq(h)]))
                => looked[h]
          /\ (~looked[h] /\ looked'[h] /\ lists[wq(h)] # <<>>)
                => /\ pc'[h] = "run"
                   /\ resources'[h] = lists[wq(h)]
                   /\ lists' = lists]_vars

\* C33 witness: the process started on h1 has handed the item left on its
\* list to the engine, which failed it again, and has then leased another.
C33_Witness ==
    /\ alive["h1"]
    /\ looked["h1"]
    /\ runs >= 1
    /\ pc["h1"] = "llen"
    /\ Len(lists[wq("h1")]) = 2
    /\ FILE[LeftOverOne[1]].ing_fail_count = 2

\* C34: while the idle service restores the list of a killed worker, whose
\* entries no one else touches, an entry of that list is on another worker's
\* list again only when every entry the killed worker had leased before it
\* (the entries to its RIGHT) has left both the list and the queue the idle
\* service returns them to.  (For identifiers notified once, so that an
\* identifier names one entry.)
C34_PassKeepsLeaseOrder ==
    (ipc = "move" /\ pass_start # <<>>) =>
        \A i \in 1..Len(pass_start) : \A j \in 1..Len(pass_start) :
            (/\ i < j
             /\ pass_start[i] # pass_start[j]
             /\ notified[pass_start[i]] = 1
             /\ notified[pass_start[j]] = 1
             /\ \E h \in Hosts :
                   /\ wq(h) # iqueue
                   /\ Count(lists[wq(h)], pass_start[i]) > 0)
                => /\ Count(lists[iqueue], pass_start[j]) = 0
                   /\ Count(lists[idle_dest(iqueue)], pass_start[j]) = 0

\* C34 witness: a killed worker had leased two different entries; the pass
\* has returned both and another worker has leased the earlier one again,
\* while the later one waits on the queue.
C34_Witness ==
    /\ ipc = "move"
    /\ Len(pass_start) = 2
    /\ pass_start[1] # pass_start[2]
    /\ lists[iqueue] = <<>>
    /\ lists[redis_queue(bucket)] = <<pass_start[1]>>
    /\ \E h \in Hosts :
          /\ wq(h) # iqueue
          /\ lists[wq(h)] = <<pass_start[2]>>

\* C35 as stated: every pass of the idle service over a worker list ends,
\* also when the list's worker runs and leases from the queue the pass
\* returns the entries to.
C35_PassTerminates == (ipc = "move") ~> (ipc = "scan")

\* The accepted notifications of the identifiers that count under key k
NotifiedOf(k) ==
    Sum(notified, { o \in ObjectsOf(bucket) : stat_key(from_path(o)) = k })

\* C36 as stated: the ingested counter of a key never exceeds its received
\* counter, nor the number of accepted notifications of its identifiers (an
\* identifier notified once is counted as ingested at most once).
C36_IngestedWithinReceived ==
    \A k \in StatKeys :
        /\ INGEST[k] <= RECINSTR[k]
        /\ INGEST[k] <= NotifiedOf(k)

====
